---- MODULE Spec2Model ----
(***************************************************************************)
(* Link extraction, path resolution and graph construction of the          *)
(* AgentLink visualizer (services/fileParser).  Strings are sequences of   *)
(* one-character strings, so that the string operations of the code        *)
(* (startsWith, slice, trim, split, join, toLowerCase, the regular         *)
(* expressions) are modelled by what they do to the characters.            *)
(***************************************************************************)
EXTENDS Integers, Sequences, FiniteSets, TLC

VARIABLES
  op,          \* the call that produced the current state ("init" before any call)
  sourcePath,  \* resolvePath: argument sourcePath
  linkPath,    \* resolvePath: argument linkPath
  resolved,    \* resolvePath: returned string
  content,     \* extractLinks: argument content
  rawLinks,    \* extractLinks: returned list
  lastIndex,   \* LINK_PATTERNS: the lastIndex cursor of each global regex
  files,       \* buildGraphData: argument files
  parseTarget, \* buildGraphData: argument parseTarget
  nodes,       \* buildGraphData: returned nodes
  links,       \* buildGraphData: returned links
  linkSet,     \* buildGraphData: the keys in its linkSet when it returned
  selectedFile,  \* App: the state selectedFile (<<>> is null, <<f>> the file f)
  fileTreeData,  \* buildFileTree: returned tree; App: the computed fileTreeData
  pickedFolder,  \* scanDirectory: argument dirHandle, the folder that is scanned
  patternsByDir, \* the Map gitignorePatterns: scanDirectory leaves it, shouldIgnore reads it
  queryPath,     \* shouldIgnore: argument relativePath
  queryIsDirectory,  \* shouldIgnore: argument isDirectory
  ignored,       \* shouldIgnore: returned boolean
  visitedDirs,   \* scanDirectory: history of the directory entries it came to
  disk,          \* loadAllFileContents: what getFile() and text() give for the handle at a path
  loadedFiles,   \* loadAllFileContents: returned list
  scanStatus,    \* App: the state scanStatus
  selections,    \* App: the calls of handleSelectFolder, each at its await or done
  lastAlert      \* App: the message of the last alert(), <<>> before any

vars == <<op, sourcePath, linkPath, resolved, content, rawLinks, lastIndex,
          files, parseTarget, nodes, links, linkSet, selectedFile, fileTreeData,
          pickedFolder, patternsByDir, queryPath, queryIsDirectory, ignored,
          visitedDirs, disk, loadedFiles, scanStatus, selections, lastAlert>>

graphVars == <<files, parseTarget, nodes, links, linkSet>>

uiVars == <<selectedFile, fileTreeData>>

scanVars == <<pickedFolder, patternsByDir, queryPath, queryIsDirectory, ignored,
             visitedDirs>>

loadVars == <<disk, loadedFiles>>

folderVars == <<scanStatus, selections, lastAlert>>

\* no call of loadAllFileContents yet
LoadIdle ==
  /\ disk = <<>>
  /\ loadedFiles = <<>>

\* no call of handleSelectFolder yet
FolderIdle ==
  /\ scanStatus = <<>>
  /\ selections = <<>>
  /\ lastAlert = <<>>

\* the variables of the scanner before any call of it
ScanIdle ==
  /\ pickedFolder = [entries |-> <<>>]
  /\ patternsByDir = <<>>
  /\ queryPath = <<>>
  /\ queryIsDirectory = FALSE
  /\ ignored = FALSE
  /\ visitedDirs = <<>>

----------------------------------------------------------------------------
(* Bounds *)

MaxSegs == 3     \* segments in a reference handed to resolvePath
MaxFrags == 2    \* fragments in a text handed to extractLinks

----------------------------------------------------------------------------
(* JavaScript string operations on character sequences *)

Min(S) == CHOOSE x \in S : \A y \in S : x <= y

UpperCase == <<"A", "B", "C", "D", "E", "F", "G", "H", "I", "J", "K", "L", "M", "N", "O", "P", "Q", "R", "S", "T", "U", "V", "W", "X", "Y", "Z">>
LowerCase == <<"a", "b", "c", "d", "e", "f", "g", "h", "i", "j", "k", "l", "m", "n", "o", "p", "q", "r", "s", "t", "u", "v", "w", "x", "y", "z">>
Digits == {"0", "1", "2", "3", "4", "5", "6", "7", "8", "9"}
Letters == {UpperCase[i] : i \in 1..26} \cup {LowerCase[i] : i \in 1..26}

\* String.prototype.trim removes white space and line terminators
WhiteSpace == {" ", "\t", "\n", "\r", "\f"}
LineTerminator == {"\n", "\r"}

\* the grave accent U+0060, which has no spelling inside a string of this language
Backtick == "U+0060"

charToUpper(c) ==
  IF \E i \in 1..26 : LowerCase[i] = c
  THEN UpperCase[CHOOSE i \in 1..26 : LowerCase[i] = c]
  ELSE c

toUpperCase(s) == [i \in 1..Len(s) |-> charToUpper(s[i])]

charToLower(c) ==
  IF \E i \in 1..26 : UpperCase[i] = c
  THEN LowerCase[CHOOSE i \in 1..26 : UpperCase[i] = c]
  ELSE c

toLowerCase(s) == [i \in 1..Len(s) |-> charToLower(s[i])]

\* s.charAt(i) for a 0-based index inside the string
charAt(s, i) == s[i + 1]

startsWith(s, prefix) ==
  /\ Len(s) >= Len(prefix)
  /\ SubSeq(s, 1, Len(prefix)) = prefix

endsWith(s, suffix) ==
  /\ Len(s) >= Len(suffix)
  /\ SubSeq(s, Len(s) - Len(suffix) + 1, Len(s)) = suffix

\* s.slice(from) for 0 <= from
slice(s, from) == SubSeq(s, from + 1, Len(s))

\* s.substring(from, to): negative arguments are clamped to 0
substring(s, from, to) ==
  LET f == IF from < 0 THEN 0 ELSE from
      t == IF to < 0 THEN 0 ELSE to
  IN SubSeq(s, f + 1, t)

\* s.lastIndexOf(c) for a single character c: -1 when absent
lastIndexOf(s, c) ==
  IF \E i \in 1..Len(s) : s[i] = c
  THEN (CHOOSE i \in 1..Len(s) : s[i] = c /\ \A j \in (i + 1)..Len(s) : s[j] # c) - 1
  ELSE -1

trim(s) ==
  LET keep == {i \in 1..Len(s) : s[i] \notin WhiteSpace}
  IN IF keep = {} THEN <<>>
     ELSE SubSeq(s, Min(keep), CHOOSE i \in keep : \A j \in keep : j <= i)

\* s.split("/"): the pieces between the separators, "" included
RECURSIVE split(_, _)
split(s, sep) ==
  IF \E i \in 1..Len(s) : s[i] = sep
  THEN LET k == Min({i \in 1..Len(s) : s[i] = sep})
       IN <<SubSeq(s, 1, k - 1)>> \o split(SubSeq(s, k + 1, Len(s)), sep)
  ELSE <<s>>

\* parts.join("/")
RECURSIVE join(_, _)
join(parts, sep) ==
  IF Len(parts) = 0 THEN <<>>
  ELSE IF Len(parts) = 1 THEN parts[1]
  ELSE parts[1] \o <<sep>> \o join(Tail(parts), sep)

\* list.includes(x)
includes(list, x) == \E i \in 1..Len(list) : list[i] = x

----------------------------------------------------------------------------
(* resolvePath and resolveRelativePath *)

\* resultParts.pop(): removes the last element, nothing on an empty array
pop(parts) == IF Len(parts) = 0 THEN parts ELSE SubSeq(parts, 1, Len(parts) - 1)

\* walkPart with ".." kept as an ordinary segment
walkPartKeepsDotDot(resultParts, part) ==
  IF part = <<".">> THEN resultParts ELSE Append(resultParts, part)

\* the body of the loop over linkParts
walkPart(resultParts, part) ==
  IF part = <<".">> THEN resultParts
  ELSE IF part = <<".", ".">> THEN pop(resultParts)
  ELSE Append(resultParts, part)

RECURSIVE walkParts(_, _)
walkParts(resultParts, linkParts) ==
  IF Len(linkParts) = 0 THEN resultParts
  ELSE walkParts(walkPart(resultParts, Head(linkParts)), Tail(linkParts))

resolveRelativePath(srcPath, relativePath) ==
  LET sourceDir == substring(srcPath, 0, lastIndexOf(srcPath, "/"))
      sourceParts == IF sourceDir # <<>> THEN split(sourceDir, "/") ELSE <<>>
      linkParts == split(relativePath, "/")
  IN join(walkParts(sourceParts, linkParts), "/")

\* the cleaned link: one leading @ stripped, then trimmed
cleanLinkOf(lnk) ==
  IF startsWith(lnk, <<"@">>) THEN trim(slice(lnk, 1)) ELSE trim(lnk)

\* resolvePath with the implicit-root form resolved against the source directory
resolvePathAllRelative(srcPath, lnk) ==
  LET cleanLink == cleanLinkOf(lnk)
  IN IF startsWith(cleanLink, <<"/">>) THEN slice(cleanLink, 1)
     ELSE resolveRelativePath(srcPath, cleanLink)

resolvePath(srcPath, lnk) ==
  LET cleanLink == cleanLinkOf(lnk)
  IN IF startsWith(cleanLink, <<"/">>) THEN slice(cleanLink, 1)
     ELSE IF startsWith(cleanLink, <<".">>) THEN resolveRelativePath(srcPath, cleanLink)
     ELSE cleanLink

----------------------------------------------------------------------------
(* LINK_PATTERNS: the four global regular expressions *)

LINK_PATTERNS == <<"wikiLink", "backtickAtLink", "atLink", "backtickPath">>

\* the character class [a-zA-Z0-9_\-\.\/]
IsPathChar(c) == c \in Letters \cup Digits \cup {"_", "-", ".", "/"}

\* the alternatives of \.(md|ts|js|json|yaml|yml)
Extensions == {<<".", "m", "d">>, <<".", "t", "s">>, <<".", "j", "s">>, <<".", "j", "s", "o", "n">>, <<".", "y", "a", "m", "l">>, <<".", "y", "m", "l">>}

\* end (exclusive, 0-based) of the longest run of path characters from index from
runEnd(text, from) ==
  CHOOSE k \in from..Len(text) :
    /\ k = Len(text) \/ ~IsPathChar(charAt(text, k))
    /\ \A j \in from..(k - 1) : IsPathChar(charAt(text, j))

NoMatch == [found |-> FALSE, group1 |-> <<>>, start |-> 0, end |-> 0]

\* the pattern /(.*?)/ in the place of the wiki pattern: it matches the empty
\* string at every index
matchWikiLinkEmpty(text, s) ==
  [found |-> TRUE, group1 |-> <<>>, start |-> s, end |-> s]

\* /\[\[(.*?)\]\]/ tried at index s: "[[", the shortest run of characters
\* other than line terminators, "]]"
matchWikiLink(text, s) ==
  IF s + 1 < Len(text) /\ charAt(text, s) = "[" /\ charAt(text, s + 1) = "["
  THEN LET ends == {e \in (s + 2)..(Len(text) - 2) :
                      /\ charAt(text, e) = "]"
                      /\ charAt(text, e + 1) = "]"
                      /\ \A k \in (s + 2)..(e - 1) : charAt(text, k) \notin LineTerminator}
       IN IF ends = {} THEN NoMatch
          ELSE [found |-> TRUE, group1 |-> substring(text, s + 2, Min(ends)),
                start |-> s, end |-> Min(ends) + 2]
  ELSE NoMatch

\* /`(@[\/\.]?[a-zA-Z0-9_\-\.\/]+)`/ tried at index s
matchBacktickAtLink(text, s) ==
  IF s + 1 < Len(text) /\ charAt(text, s) = Backtick /\ charAt(text, s + 1) = "@"
  THEN LET r == runEnd(text, s + 2)
       IN IF r > s + 2 /\ r < Len(text) /\ charAt(text, r) = Backtick
          THEN [found |-> TRUE, group1 |-> substring(text, s + 1, r),
                start |-> s, end |-> r + 1]
          ELSE NoMatch
  ELSE NoMatch

\* /(?:^|[\s:])(@[\/\.]?[a-zA-Z0-9_\-\.\/]+)/m tried at index s: with the m
\* flag ^ matches at the start of the text and after a line terminator
matchAtLink(text, s) ==
  LET atStart == s = 0 \/ charAt(text, s - 1) \in LineTerminator
      c == IF s < Len(text) /\ charAt(text, s) = "@" /\ atStart THEN s
           ELSE IF /\ s + 1 < Len(text)
                   /\ charAt(text, s) \in WhiteSpace \cup {":"}
                   /\ charAt(text, s + 1) = "@" THEN s + 1
           ELSE -1
  IN IF c < 0 THEN NoMatch
     ELSE LET r == runEnd(text, c + 1)
          IN IF r > c + 1
             THEN [found |-> TRUE, group1 |-> substring(text, c, r),
                   start |-> s, end |-> r]
             ELSE NoMatch

\* /`([a-zA-Z0-9_\-\.\/]+\.(md|ts|js|json|yaml|yml))`/ tried at index s
matchBacktickPath(text, s) ==
  IF s + 1 < Len(text) /\ charAt(text, s) = Backtick
  THEN LET r == runEnd(text, s + 1)
           run == substring(text, s + 1, r)
       IN IF /\ r < Len(text)
             /\ charAt(text, r) = Backtick
             /\ \E ext \in Extensions : endsWith(run, ext) /\ Len(run) > Len(ext)
          THEN [found |-> TRUE, group1 |-> run, start |-> s, end |-> r + 1]
          ELSE NoMatch
  ELSE NoMatch

matchAt(pattern, text, s) ==
  CASE pattern = "wikiLink" -> matchWikiLink(text, s)
    [] pattern = "backtickAtLink" -> matchBacktickAtLink(text, s)
    [] pattern = "atLink" -> matchAtLink(text, s)
    [] pattern = "backtickPath" -> matchBacktickPath(text, s)

\* the indexes at or after from where the pattern matches
matchStarts(pattern, text, from) ==
  {s \in from..(Len(text) - 1) : matchAt(pattern, text, s).found}

\* what exec returns for a match m: the match, and the cursor at its end
execFound(m) == [match |-> m, lastIndex |-> m.end]

\* what exec returns when starts are the indexes where the pattern matches:
\* the leftmost match, or null with the cursor back at 0
execAmong(pattern, text, starts) ==
  IF starts = {} THEN [match |-> NoMatch, lastIndex |-> 0]
  ELSE execFound(matchAt(pattern, text, Min(starts)))

\* pattern.exec(text) of a global regex whose cursor is at from
exec(pattern, text, from) == execAmong(pattern, text, matchStarts(pattern, text, from))

\* resetPatterns: every cursor back to 0
resetPatterns(cursors) == [p \in DOMAIN cursors |-> 0]

\* unshift in the place of push
pushLinkUnshift(pushed, capture, checkIncludes) ==
  IF checkIncludes /\ includes(pushed, capture) THEN pushed ELSE <<capture>> \o pushed

\* links.push(match[1]), behind the includes test in the loops that have it
pushLink(pushed, capture, checkIncludes) ==
  IF checkIncludes /\ includes(pushed, capture) THEN pushed ELSE Append(pushed, capture)

RECURSIVE scanLoop(_, _, _, _)

\* one test of a while loop, r being what exec returned: the loop ends on
\* null, else the capture is pushed and the loop goes on
scanStep(st, pattern, text, checkIncludes, r) ==
  IF ~r.match.found THEN [st EXCEPT !.lastIndex[pattern] = r.lastIndex]
  ELSE scanLoop([links |-> pushLink(st.links, r.match.group1, checkIncludes),
                 lastIndex |-> [st.lastIndex EXCEPT ![pattern] = r.lastIndex]],
                pattern, text, checkIncludes)

\* one while loop of extractLinks; st holds links and the cursors
scanLoop(st, pattern, text, checkIncludes) ==
  scanStep(st, pattern, text, checkIncludes, exec(pattern, text, st.lastIndex[pattern]))

\* extractLinks started with the regex cursors where cursors says; returns
\* the links and the cursors it leaves behind
extractLinks(text, cursors) ==
  scanLoop(
    scanLoop(
      scanLoop(
        scanLoop([links |-> <<>>, lastIndex |-> resetPatterns(cursors)],
                 "wikiLink", text, FALSE),
        "backtickAtLink", text, FALSE),
      "atLink", text, TRUE),
    "backtickPath", text, TRUE)

----------------------------------------------------------------------------
(* buildGraphData *)

\* FILE_TYPES and ParseMode
CLAUDE_MD == <<"C", "L", "A", "U", "D", "E", ".", "m", "d">>
AGENTS_MD == <<"A", "G", "E", "N", "T", "S", ".", "m", "d">>
ALLOWED_TYPES == <<CLAUDE_MD, AGENTS_MD>>
ParseMode == {CLAUDE_MD, AGENTS_MD}

\* an AgentFile: content is optional, loaded tells whether it is there
AgentFile(path, name, directory, loaded, text) ==
  [path |-> path, name |-> name, directory |-> directory,
   loaded |-> loaded, content |-> text]

\* !file.content: content is undefined or the empty string
contentIsFalsy(file) == ~file.loaded \/ file.content = <<>>

isAllowedFileType(fileName) ==
  LET lowerName == toLowerCase(fileName)
  IN \E i \in 1..Len(ALLOWED_TYPES) : lowerName = toLowerCase(ALLOWED_TYPES[i])

isRootFile(file) == file.directory = <<>>

\* shouldExcludeFile that compares the name in its original case
shouldExcludeFileExactCase(file, target) ==
  IF ~isRootFile(file) THEN FALSE
  ELSE LET isAgentOrClaude == file.name = CLAUDE_MD \/ file.name = AGENTS_MD
       IN isAgentOrClaude /\ file.name # target

shouldExcludeFile(file, target) ==
  IF ~isRootFile(file) THEN FALSE
  ELSE LET fileName == toLowerCase(file.name)
           isAgentOrClaude == fileName = <<"c", "l", "a", "u", "d", "e", ".", "m", "d">> \/ fileName = <<"a", "g", "e", "n", "t", "s", ".", "m", "d">>
       IN isAgentOrClaude /\ fileName # toLowerCase(target)

\* fileMap.get(path): the Map built from files keeps the last file of a path
fileMapHas(fs, path) == \E i \in 1..Len(fs) : fs[i].path = path
fileMapGet(fs, path) ==
  fs[CHOOSE i \in 1..Len(fs) : fs[i].path = path /\ \A j \in (i + 1)..Len(fs) : fs[j].path # path]

\* findTargetFile that tries the path with ".md" appended first
findTargetFileSuffixFirst(resolvedPath, fs) ==
  IF fileMapHas(fs, resolvedPath \o <<".", "m", "d">>)
  THEN [found |-> TRUE, file |-> fileMapGet(fs, resolvedPath \o <<".", "m", "d">>)]
  ELSE IF fileMapHas(fs, resolvedPath)
  THEN [found |-> TRUE, file |-> fileMapGet(fs, resolvedPath)]
  ELSE [found |-> FALSE, file |-> AgentFile(<<>>, <<>>, <<>>, FALSE, <<>>)]

\* findTargetFile: the exact path, else the path with ".md" appended
findTargetFile(resolvedPath, fs) ==
  IF fileMapHas(fs, resolvedPath)
  THEN [found |-> TRUE, file |-> fileMapGet(fs, resolvedPath)]
  ELSE IF fileMapHas(fs, resolvedPath \o <<".", "m", "d">>)
  THEN [found |-> TRUE, file |-> fileMapGet(fs, resolvedPath \o <<".", "m", "d">>)]
  ELSE [found |-> FALSE, file |-> AgentFile(<<>>, <<>>, <<>>, FALSE, <<>>)]

\* nodesMap is the sequence of the Map's values in insertion order
nodesMapHas(nodesMap, id) == \E i \in 1..Len(nodesMap) : nodesMap[i].id = id

displayNameOf(file) ==
  IF file.directory # <<>>
  THEN LET parts == split(file.directory, "/")
       IN parts[Len(parts)] \o <<"/">> \o file.name
  ELSE file.name

\* getOrCreateNode that adds a node on every call
getOrCreateNodeAlways(nodesMap, file, isSource, target) ==
  Append(nodesMap,
         [id |-> file.path, name |-> displayNameOf(file), group |-> 1, file |-> file,
          val |-> IF isSource THEN 2 ELSE 1,
          isRoot |-> isRootFile(file) /\ toLowerCase(file.name) = toLowerCase(target)])

\* getOrCreateNode: the nodesMap after the call
getOrCreateNode(nodesMap, file, isSource, target) ==
  IF nodesMapHas(nodesMap, file.path) THEN nodesMap
  ELSE Append(nodesMap,
              [id |-> file.path, name |-> displayNameOf(file), group |-> 1, file |-> file,
               val |-> IF isSource THEN 2 ELSE 1,
               isRoot |-> isRootFile(file) /\ toLowerCase(file.name) = toLowerCase(target)])

\* node.val += 1 left out
incrementValNever(nodesMap, id) == nodesMap

\* node.val += 1 on the node of an id
incrementVal(nodesMap, id) ==
  [i \in 1..Len(nodesMap) |->
     IF nodesMap[i].id = id THEN [nodesMap[i] EXCEPT !.val = @ + 1] ELSE nodesMap[i]]

\* `${sourceFile.path}->${target.path}`
linkKeyOf(srcPath, targetPath) == srcPath \o <<"-", ">">> \o targetPath

\* the self-loop test left out
isSelfLoopNever(sourceFile, target) == FALSE

\* sourceFile.path === target.path
isSelfLoop(sourceFile, target) == sourceFile.path = target.path

\* the duplicate test left out
isDuplicateLinkNever(keys, linkKey) == FALSE

\* linkSet.has(linkKey)
isDuplicateLink(keys, linkKey) == linkKey \in keys

\* the loop body with one more test: a target without content is skipped
admitTargetWithContent(st, sourceFile, t, target) ==
  IF ~t.found THEN st
  ELSE IF contentIsFalsy(t.file) THEN st
  ELSE IF ~endsWith(toLowerCase(t.file.name), <<".", "m", "d">>) THEN st
  ELSE IF shouldExcludeFile(t.file, target) THEN st
  ELSE IF isSelfLoop(sourceFile, t.file) THEN st
  ELSE IF isDuplicateLink(st.linkSet, linkKeyOf(sourceFile.path, t.file.path)) THEN st
  ELSE [st EXCEPT
          !.linkSet = @ \cup {linkKeyOf(sourceFile.path, t.file.path)},
          !.links = Append(@, [source |-> sourceFile.path, target |-> t.file.path]),
          !.nodesMap = incrementVal(
                         incrementVal(getOrCreateNode(@, t.file, FALSE, target),
                                      sourceFile.path),
                         t.file.path)]

\* the loop body after the lookup: t is what findTargetFile returned
admitTarget(st, sourceFile, t, target) ==
  IF ~t.found THEN st
  ELSE IF ~endsWith(toLowerCase(t.file.name), <<".", "m", "d">>) THEN st
  ELSE IF shouldExcludeFile(t.file, target) THEN st
  ELSE IF isSelfLoop(sourceFile, t.file) THEN st
  ELSE IF isDuplicateLink(st.linkSet, linkKeyOf(sourceFile.path, t.file.path)) THEN st
  ELSE [st EXCEPT
          !.linkSet = @ \cup {linkKeyOf(sourceFile.path, t.file.path)},
          !.links = Append(@, [source |-> sourceFile.path, target |-> t.file.path]),
          !.nodesMap = incrementVal(
                         incrementVal(getOrCreateNode(@, t.file, FALSE, target),
                                      sourceFile.path),
                         t.file.path)]

\* the body of the loop over rawLinks; st holds nodesMap, links and linkSet
processLink(st, sourceFile, rawLink, fs, target) ==
  admitTarget(st, sourceFile,
              findTargetFile(resolvePath(sourceFile.path, rawLink), fs), target)

RECURSIVE processLinks(_, _, _, _, _)
processLinks(st, sourceFile, rawLinkList, fs, target) ==
  IF Len(rawLinkList) = 0 THEN st
  ELSE processLinks(processLink(st, sourceFile, Head(rawLinkList), fs, target),
                    sourceFile, Tail(rawLinkList), fs, target)

\* the first two tests of the loop over files
isSourceCandidate(sourceFile, target) ==
  isAllowedFileType(sourceFile.name) /\ ~shouldExcludeFile(sourceFile, target)

\* the loop body for a file that is scanned, r being what extractLinks
\* returned: the source node is created, then the raw links are processed
scanSource(st, sourceFile, r, fs, target) ==
  processLinks([st EXCEPT !.nodesMap = getOrCreateNode(@, sourceFile, TRUE, target),
                          !.lastIndex = r.lastIndex],
               sourceFile, r.links, fs, target)

\* the body of the loop over files
processFile(st, sourceFile, fs, target) ==
  IF ~isSourceCandidate(sourceFile, target) THEN st
  ELSE IF contentIsFalsy(sourceFile) THEN st
  ELSE scanSource(st, sourceFile, extractLinks(sourceFile.content, st.lastIndex),
                  fs, target)

RECURSIVE processFiles(_, _, _, _)
processFiles(st, i, fs, target) ==
  IF i > Len(fs) THEN st
  ELSE processFiles(processFile(st, fs[i], fs, target), i + 1, fs, target)

\* const linkSet = new Set() that keeps what an earlier call put in it
newLinkSetShared(earlier) == earlier

\* const linkSet = new Set(): empty on every call, whatever an earlier call left
newLinkSet(earlier) == {}

\* buildGraphData(files, parseTarget) called with the regex cursors at
\* cursors; earlierKeys is the linkSet of the call before.  Returns nodesMap
\* (whose values are the returned nodes), links, and the linkSet and the
\* cursors it leaves behind
buildGraphData(fs, target, cursors, earlierKeys) ==
  processFiles([nodesMap |-> <<>>, links |-> <<>>,
                linkSet |-> newLinkSet(earlierKeys), lastIndex |-> cursors],
               1, fs, target)

----------------------------------------------------------------------------
(* buildFileTree and sortFileTree.  An optional field is a sequence of      *)
(* length 0 (undefined) or 1: children is <<list>> for a directory,         *)
(* fileData is <<file>> for a file                                          *)

FileTreeNode(name, path, type, children, fileData) ==
  [name |-> name, path |-> path, type |-> type, children |-> children,
   fileData |-> fileData]

\* currentLevel.find((n) => n.name === part && n.type === nodeType): the
\* index of the first such node, 0 if there is none
findNode(level, part, nodeType) ==
  IF \E i \in 1..Len(level) : level[i].name = part /\ level[i].type = nodeType
  THEN Min({i \in 1..Len(level) : level[i].name = part /\ level[i].type = nodeType})
  ELSE 0

\* the body of parts.forEach from index on (indices from 1), applied to the
\* list currentLevel points to: the list after the file is inserted
RECURSIVE insertParts(_, _, _, _)

\* the branch of an existing node at position pos
insertExisting(level, pos, parts, index, file) ==
  IF index # Len(parts) /\ level[pos].children # <<>>
  THEN [level EXCEPT ![pos].children =
          <<insertParts(@[1], parts, index + 1, file)>>]
  ELSE level

\* the branch of a new node
insertNew(level, parts, index, file) ==
  IF index = Len(parts)
  THEN Append(level, FileTreeNode(parts[index], join(SubSeq(parts, 1, index), "/"),
                                  "file", <<>>, <<file>>))
  ELSE Append(level, FileTreeNode(parts[index], join(SubSeq(parts, 1, index), "/"),
                                  "directory",
                                  <<insertParts(<<>>, parts, index + 1, file)>>, <<>>))

insertAt(level, pos, parts, index, file) ==
  IF pos # 0 THEN insertExisting(level, pos, parts, index, file)
  ELSE insertNew(level, parts, index, file)

insertParts(level, parts, index, file) ==
  IF index > Len(parts) THEN level
  ELSE insertAt(level,
                findNode(level, parts[index],
                         IF index = Len(parts) THEN "file" ELSE "directory"),
                parts, index, file)

\* String.prototype.localeCompare on names of letters, digits, "_", "-" and
\* ".": the order of the root collation, which compares the characters
\* without their case first (punctuation, then digits, then letters) and
\* puts a lower-case letter before its upper-case one only to break a tie
CollationOrder ==
  <<"_", "-", ".", "0", "1", "2", "3", "4", "5", "6", "7", "8", "9">> \o LowerCase

collationRank(c) ==
  Min({i \in 1..Len(CollationOrder) : CollationOrder[i] = charToLower(c)})

caseRank(c) == IF charToLower(c) = c THEN 0 ELSE 1

keyOf(c, level) == IF level = "primary" THEN collationRank(c) ELSE caseRank(c)

\* -1, 0 or 1: the comparison of the keys of the characters from index i on
RECURSIVE compareFrom(_, _, _, _)
compareFrom(a, b, i, level) ==
  IF i > Len(a) /\ i > Len(b) THEN 0
  ELSE IF i > Len(a) THEN -1
  ELSE IF i > Len(b) THEN 1
  ELSE IF keyOf(a[i], level) < keyOf(b[i], level) THEN -1
  ELSE IF keyOf(a[i], level) > keyOf(b[i], level) THEN 1
  ELSE compareFrom(a, b, i + 1, level)

localeCompare(a, b) ==
  IF compareFrom(a, b, 1, "primary") # 0
  THEN compareFrom(a, b, 1, "primary")
  ELSE compareFrom(a, b, 1, "case")

\* the comparison function of sortFileTree that does not look at the type
compareNodesByNameOnly(a, b) == localeCompare(a.name, b.name)

\* the comparison function of sortFileTree
compareNodes(a, b) ==
  IF a.type # b.type
  THEN (IF a.type = "directory" THEN -1 ELSE 1)
  ELSE localeCompare(a.name, b.name)

\* Array.prototype.sort, which is stable: x is inserted after the last
\* element of the sorted list that does not compare greater than it
insertSorted(sorted, x) ==
  LET before == {i \in 1..Len(sorted) : compareNodes(sorted[i], x) <= 0}
      k == IF before = {} THEN 0 ELSE CHOOSE i \in before : \A j \in before : j <= i
  IN SubSeq(sorted, 1, k) \o <<x>> \o SubSeq(sorted, k + 1, Len(sorted))

RECURSIVE sortNodes(_, _)
sortNodes(sorted, rest) ==
  IF Len(rest) = 0 THEN sorted
  ELSE sortNodes(insertSorted(sorted, Head(rest)), Tail(rest))

\* sortFileTree: the list sorted, then the children of each node that has
\* children
RECURSIVE sortFileTree(_)

\* for (const node of nodes) if (node.children) sortFileTree(node.children)
sortChildren(sorted) ==
  [i \in 1..Len(sorted) |->
     IF sorted[i].children # <<>>
     THEN [sorted[i] EXCEPT !.children = <<sortFileTree(@[1])>>]
     ELSE sorted[i]]

sortFileTree(level) == sortChildren(sortNodes(<<>>, level))

\* the loop over files of buildFileTree
RECURSIVE insertFiles(_, _, _)
insertFiles(root, fs, i) ==
  IF i > Len(fs) THEN root
  ELSE insertFiles(insertParts(root, split(fs[i].path, "/"), 1, fs[i]), fs, i + 1)

buildFileTree(fs) == sortFileTree(insertFiles(<<>>, fs, 1))

----------------------------------------------------------------------------
(* services/gitignore: patterns are over letters, digits, "_", "-", ".",    *)
(* "/", "*", "?", "!" and "#", the characters patternToRegex leaves as they *)
(* are or rewrites; a regular expression is the list of its tokens          *)

\* parseGitignore: the trimmed lines that are not empty and no comments
parseGitignore(text) ==
  SelectSeq([i \in 1..Len(split(text, "\n")) |-> trim(split(text, "\n")[i])],
            LAMBDA line : line # <<>> /\ ~startsWith(line, <<"#">>))

\* the replace chain of patternToRegex: "." is escaped to a literal, "**"
\* becomes ".*", a remaining "*" becomes "[^/]*", "?" becomes "[^/]"
RECURSIVE globTokens(_)
globTokens(pattern) ==
  IF Len(pattern) = 0 THEN <<>>
  ELSE IF Len(pattern) >= 2 /\ pattern[1] = "*" /\ pattern[2] = "*"
  THEN <<[kind |-> "anyRun", char |-> ""]>> \o globTokens(SubSeq(pattern, 3, Len(pattern)))
  ELSE IF pattern[1] = "*"
  THEN <<[kind |-> "noSlashRun", char |-> ""]>> \o globTokens(Tail(pattern))
  ELSE IF pattern[1] = "?"
  THEN <<[kind |-> "noSlash", char |-> ""]>> \o globTokens(Tail(pattern))
  ELSE <<[kind |-> "literal", char |-> pattern[1]]>> \o globTokens(Tail(pattern))

\* patternToRegex: the tokens, and how the expression is anchored at its
\* start: "(^|.*/)?" for a pattern without "/" that is not rooted, "^" for a
\* rooted one, "(^|/)" otherwise; every expression ends in "$"
patternToRegex(pattern, isRooted) ==
  [tokens |-> globTokens(pattern),
   anchor |-> IF ~includes(pattern, "/") /\ ~isRooted THEN "anyLevel"
              ELSE IF isRooted THEN "start"
              ELSE "startOrSlash"]

\* the tokens from the k-th on match the path from its i-th character (from
\* 1) to its end
RECURSIVE tokensMatch(_, _, _, _)
tokensMatch(tokens, k, path, i) ==
  IF k > Len(tokens) THEN i = Len(path) + 1
  ELSE IF tokens[k].kind = "literal"
  THEN i <= Len(path) /\ path[i] = tokens[k].char /\ tokensMatch(tokens, k + 1, path, i + 1)
  ELSE IF tokens[k].kind = "noSlash"
  THEN i <= Len(path) /\ path[i] # "/" /\ tokensMatch(tokens, k + 1, path, i + 1)
  ELSE IF tokens[k].kind = "noSlashRun"
  THEN \E j \in i..(Len(path) + 1) :
         /\ \A x \in i..(j - 1) : path[x] # "/"
         /\ tokensMatch(tokens, k + 1, path, j)
  ELSE \E j \in i..(Len(path) + 1) : tokensMatch(tokens, k + 1, path, j)

\* regex.test(path): the optional group of "(^|.*/)?" lets the tokens begin
\* at any character, "(^|/)" at the start or behind a "/"
regexTest(regex, path) ==
  \E i \in 1..(Len(path) + 1) :
    /\ \/ regex.anchor = "anyLevel"
       \/ i = 1
       \/ regex.anchor = "startOrSlash" /\ path[i - 1] = "/"
    /\ tokensMatch(regex.tokens, 1, path, i)

\* the pattern without its trailing "/"
withoutDirSlash(pattern) ==
  IF endsWith(pattern, <<"/">>) THEN SubSeq(pattern, 1, Len(pattern) - 1) ELSE pattern

\* the negation mark is dropped and the rest is matched as a pattern
matchesGitignorePatternOfNegation(path, pattern, isDirectory) ==
  IF endsWith(pattern, <<"/">>) /\ ~isDirectory THEN FALSE
  ELSE regexTest(patternToRegex(
                   withoutDirSlash(IF startsWith(pattern, <<"!">>) THEN Tail(pattern)
                                   ELSE pattern), FALSE), path)

matchesGitignorePattern(path, pattern, isDirectory) ==
  IF startsWith(pattern, <<"!">>) THEN FALSE
  ELSE IF endsWith(pattern, <<"/">>) /\ ~isDirectory THEN FALSE
  ELSE IF startsWith(withoutDirSlash(pattern), <<"/">>)
  THEN regexTest(patternToRegex(slice(withoutDirSlash(pattern), 1), TRUE), path)
  ELSE regexTest(patternToRegex(withoutDirSlash(pattern), FALSE), path)

\* isApplicable of shouldIgnore
isApplicable(relativePath, ignoreDir) ==
  \/ startsWith(relativePath, ignoreDir)
  \/ ignoreDir = <<>>
  \/ relativePath = ignoreDir

pathRelativeToIgnore(relativePath, ignoreDir) ==
  IF ignoreDir # <<>> THEN slice(relativePath, Len(ignoreDir) + 1) ELSE relativePath

\* shouldIgnore; the Map gitignorePatterns is the sequence of its entries
\* [dir, patterns] in insertion order
shouldIgnore(relativePath, isDirectory, gitignorePatterns) ==
  \E e \in 1..Len(gitignorePatterns) :
    /\ isApplicable(relativePath, gitignorePatterns[e].dir)
    /\ \E k \in 1..Len(gitignorePatterns[e].patterns) :
         matchesGitignorePattern(
           pathRelativeToIgnore(relativePath, gitignorePatterns[e].dir),
           gitignorePatterns[e].patterns[k], isDirectory)

----------------------------------------------------------------------------
(* services/directoryScanner.  A directory handle is [entries |-> the      *)
(* entries in the order values() yields them]; an entry is a file with its *)
(* text, a directory with its handle, or the point at which the iterator   *)
(* of values() rejects                                                     *)

FileEntry(name, text) == [kind |-> "file", name |-> name, text |-> text]
DirectoryEntry(name, handle) == [kind |-> "directory", name |-> name, handle |-> handle]
ThrowEntry == [kind |-> "throws"]

ALWAYS_SKIP_DIRS == {<<".", "g", "i", "t">>, <<".", "s", "v", "n">>, <<".", "h", "g">>}
MARKDOWN_EXTENSION == <<".", "m", "d">>

buildEntryPath(relativePath, entryName) ==
  IF relativePath # <<>> THEN relativePath \o <<"/">> \o entryName ELSE entryName

\* gitignorePatterns.set(relativePath, patterns)
mapSet(gitignorePatterns, dir, patterns) ==
  IF \E e \in 1..Len(gitignorePatterns) : gitignorePatterns[e].dir = dir
  THEN [e \in 1..Len(gitignorePatterns) |->
          IF gitignorePatterns[e].dir = dir
          THEN [dir |-> dir, patterns |-> patterns] ELSE gitignorePatterns[e]]
  ELSE Append(gitignorePatterns, [dir |-> dir, patterns |-> patterns])

\* the texts of the files named .gitignore in a directory: getFileHandle
\* throws when there is none
gitignoreTexts(dirHandle) ==
  SelectSeq(dirHandle.entries,
            LAMBDA entry : entry.kind = "file" /\ entry.name = <<".", "g", "i", "t", "i", "g", "n", "o", "r", "e">>)

\* loadGitignorePatterns: the Map after the call
loadGitignorePatterns(dirHandle, relativePath, gitignorePatterns) ==
  IF gitignoreTexts(dirHandle) = <<>> THEN gitignorePatterns
  ELSE IF Len(parseGitignore(gitignoreTexts(dirHandle)[1].text)) > 0
  THEN mapSet(gitignorePatterns, relativePath,
              parseGitignore(gitignoreTexts(dirHandle)[1].text))
  ELSE gitignorePatterns

isMarkdownFile(fileName) == endsWith(toLowerCase(fileName), MARKDOWN_EXTENSION)

\* no directory is skipped
shouldSkipDirectoryNever(dirName, entryPath, gitignorePatterns) == FALSE

shouldSkipDirectory(dirName, entryPath, gitignorePatterns) ==
  IF dirName \in ALWAYS_SKIP_DIRS THEN TRUE
  ELSE shouldIgnore(entryPath, TRUE, gitignorePatterns)

\* createAgentFile: a record with a handle and no content
createAgentFile(entryPath, entryName, relativePath) ==
  AgentFile(entryPath, entryName, relativePath, FALSE, <<>>)

RECURSIVE scanDirectory(_, _, _)

\* st after the files of a subdirectory are pushed: sub is what the
\* recursive call returned, with the Map it shares with its caller
pushSubFiles(st, sub) ==
  [foundFiles |-> st.foundFiles \o sub.foundFiles,
   gitignorePatterns |-> sub.gitignorePatterns,
   visited |-> st.visited \o sub.visited]

\* history: the directory entry at entryPath is reached, and what
\* shouldIgnore says of it with the Map of that moment
logVisit(st, entryPath) ==
  [st EXCEPT !.visited =
     Append(@, [path |-> entryPath,
                ignoredWhenVisited |-> shouldIgnore(entryPath, TRUE, st.gitignorePatterns)])]

\* the body of the loop over the entries; st holds foundFiles and the Map
scanEntry(st, entry, relativePath) ==
  IF entry.kind = "file"
  THEN IF /\ isMarkdownFile(entry.name)
          /\ ~shouldIgnore(buildEntryPath(relativePath, entry.name), FALSE,
                           st.gitignorePatterns)
       THEN [st EXCEPT !.foundFiles =
               Append(@, createAgentFile(buildEntryPath(relativePath, entry.name),
                                         entry.name, relativePath))]
       ELSE st
  ELSE IF ~shouldSkipDirectory(entry.name, buildEntryPath(relativePath, entry.name),
                               st.gitignorePatterns)
  THEN pushSubFiles(logVisit(st, buildEntryPath(relativePath, entry.name)),
                    scanDirectory(entry.handle,
                                  buildEntryPath(relativePath, entry.name),
                                  st.gitignorePatterns))
  ELSE logVisit(st, buildEntryPath(relativePath, entry.name))

\* a catch clause after which nothing of the directory is returned
catchErrorLosingFiles(st) == [st EXCEPT !.foundFiles = <<>>]

\* the catch clause of scanDirectory: the error is logged, foundFiles stays
catchError(st) == st

RECURSIVE scanEntries(_, _, _, _)
scanEntries(st, entries, i, relativePath) ==
  IF i > Len(entries) THEN st
  ELSE IF entries[i].kind = "throws" THEN catchError(st)
  ELSE scanEntries(scanEntry(st, entries[i], relativePath), entries, i + 1, relativePath)

\* scanDirectory(dirHandle, relativePath, gitignorePatterns): the files it
\* returns and the Map as it leaves it; an entry that throws ends the loop in
\* the catch clause, which returns the files found so far
scanDirectory(dirHandle, relativePath, gitignorePatterns) ==
  scanEntries([foundFiles |-> <<>>,
               gitignorePatterns |->
                 loadGitignorePatterns(dirHandle, relativePath, gitignorePatterns),
               visited |-> <<>>],
              dirHandle.entries, 1, relativePath)

\* loadAllFileContents.  The handle of a record is the file of the disk at
\* the path of the record: a record whose path the disk does not have has no
\* fileHandle; disk[path].ok tells whether getFile() and text() succeed and
\* disk[path].text what text() gives
hasFileHandle(file, fileSystem) == file.path \in DOMAIN fileSystem

\* a read is made also of a file that has content
needsReadWithContent(file, fileSystem) == hasFileHandle(file, fileSystem)

\* file.fileHandle && !file.content
needsRead(file, fileSystem) == hasFileHandle(file, fileSystem) /\ contentIsFalsy(file)

\* the callback of files.map as Promise.allSettled settles it
settledRead(file, fileSystem) ==
  IF needsRead(file, fileSystem)
  THEN IF fileSystem[file.path].ok
       THEN [status |-> "fulfilled",
             value |-> [file EXCEPT !.loaded = TRUE, !.content = fileSystem[file.path].text]]
       ELSE [status |-> "rejected", value |-> file]
  ELSE [status |-> "fulfilled", value |-> file]

loadAllFileContents(fs, fileSystem) ==
  [index \in 1..Len(fs) |->
     IF settledRead(fs[index], fileSystem).status = "fulfilled"
     THEN settledRead(fs[index], fileSystem).value
     ELSE fs[index]]

----------------------------------------------------------------------------
(* Inputs of the resolvePath specification *)

SourcePaths == {<<"C", "L", "A", "U", "D", "E", ".", "m", "d">>, <<"a", "/", "b", "/", "C", "L", "A", "U", "D", "E", ".", "m", "d">>, <<"x", "/", "y", "/", "C", "L", "A", "U", "D", "E", ".", "m", "d">>}

Segments == {<<".">>, <<".", ".">>, <<>>, <<"c", ".", "m", "d">>, <<"z", ".", "m", "d">>, <<"d", "o", "c", "s">>, <<"s", "p", "e", "c", ".", "m", "d">>}

SegLists == UNION {[1..n -> Segments] : n \in 1..MaxSegs}

Prefixes == {<<>>, <<"@">>, <<"@", " ">>, <<" ">>}

LinkPaths == {p \o join(segs, "/") : p \in Prefixes, segs \in SegLists}

NoString == <<"?">>

NoRegexState == [wikiLink |-> 0, backtickAtLink |-> 0, atLink |-> 0, backtickPath |-> 0]

InitResolve ==
  /\ op = "init"
  /\ sourcePath \in SourcePaths
  /\ linkPath \in LinkPaths
  /\ resolved = NoString
  /\ ScanIdle
  /\ LoadIdle
  /\ FolderIdle
  /\ content = <<>>
  /\ rawLinks = <<>>
  /\ lastIndex = NoRegexState
  /\ files = <<>>
  /\ parseTarget = CLAUDE_MD
  /\ nodes = <<>>
  /\ links = <<>>
  /\ linkSet = {}
  /\ selectedFile = <<>>
  /\ fileTreeData = <<>>

CallResolvePath ==
  /\ op = "init"
  /\ op' = "resolvePath"
  /\ resolved' = resolvePath(sourcePath, linkPath)
  /\ UNCHANGED <<sourcePath, linkPath, content, rawLinks, lastIndex>>
  /\ UNCHANGED scanVars
  /\ UNCHANGED <<loadVars, folderVars>>
  /\ UNCHANGED graphVars
  /\ UNCHANGED uiVars

NextResolve == CallResolvePath

SpecResolve == InitResolve /\ [][NextResolve]_vars

----------------------------------------------------------------------------
(* Properties of resolvePath *)

\* the reference after stripping one leading @ and trimming, as the claims word it
StripAtAndTrim(ref) ==
  IF Len(ref) > 0 /\ ref[1] = "@" THEN trim(Tail(ref)) ELSE trim(ref)

\* the segments of the directory of a path: all its segments but the last
DirSegments(path) ==
  LET segs == split(path, "/") IN SubSeq(segs, 1, Len(segs) - 1)

\* the accumulator after the first i reference segments: "." is skipped,
\* ".." removes the last accumulated segment if there is one, any other
\* segment is appended
Accumulated(dirSegs, refSegs) ==
  LET acc[i \in 0..Len(refSegs)] ==
        IF i = 0 THEN dirSegs
        ELSE LET seg == refSegs[i]
                 prev == acc[i - 1]
             IN IF seg = <<".">> THEN prev
                ELSE IF seg = <<".", ".">>
                     THEN [k \in 1..(IF Len(prev) = 0 THEN 0 ELSE Len(prev) - 1) |-> prev[k]]
                     ELSE prev \o <<seg>>
  IN acc[Len(refSegs)]

\* C9: a reference that starts with "." after stripping one @ and trimming
\* resolves to the source directory's segments followed by the reference's
\* segments walked left to right ("." skipped, ".." pops and is a no-op on
\* an empty accumulator), joined with "/"; resolvePath("a/b/CLAUDE.md",
\* "../c.md") is "a/c.md".
C9_RelativeResolution ==
  op = "resolvePath" /\ startsWith(StripAtAndTrim(linkPath), <<".">>) =>
    /\ resolved = join(Accumulated(DirSegments(sourcePath),
                                    split(StripAtAndTrim(linkPath), "/")), "/")
    /\ (sourcePath = <<"a", "/", "b", "/", "C", "L", "A", "U", "D", "E", ".", "m", "d">> /\ linkPath = <<".", ".", "/", "c", ".", "m", "d">> => resolved = <<"a", "/", "c", ".", "m", "d">>)

C9_Witness ==
  /\ op = "resolvePath"
  /\ sourcePath = <<"a", "/", "b", "/", "C", "L", "A", "U", "D", "E", ".", "m", "d">>
  /\ linkPath = <<".", ".", "/", "c", ".", "m", "d">>
  /\ resolved = <<"a", "/", "c", ".", "m", "d">>

\* C10: a reference that does not start with "." after stripping one @ and
\* trimming resolves independently of sourcePath: to the remainder after one
\* leading "/" if it starts with "/", otherwise to the trimmed string itself.
C10_RootResolution ==
  op = "resolvePath" /\ ~startsWith(StripAtAndTrim(linkPath), <<".">>) =>
    LET t == StripAtAndTrim(linkPath)
    IN /\ resolved = (IF Len(t) > 0 /\ t[1] = "/" THEN Tail(t) ELSE t)
       /\ (linkPath = <<"@", "/", "z", ".", "m", "d">> => resolved = <<"z", ".", "m", "d">>)
       /\ (linkPath = <<"@", "d", "o", "c", "s", "/", "s", "p", "e", "c", ".", "m", "d">> => resolved = <<"d", "o", "c", "s", "/", "s", "p", "e", "c", ".", "m", "d">>)

C10_Witness ==
  /\ op = "resolvePath"
  /\ sourcePath = <<"x", "/", "y", "/", "C", "L", "A", "U", "D", "E", ".", "m", "d">>
  /\ linkPath = <<"@", "d", "o", "c", "s", "/", "s", "p", "e", "c", ".", "m", "d">>
  /\ resolved = <<"d", "o", "c", "s", "/", "s", "p", "e", "c", ".", "m", "d">>

----------------------------------------------------------------------------
(* Inputs of the extractLinks specification *)

Fragments ==
  { <<"[", "[", "a", "]", "]">>, <<"[", "[", "@", "a", "]", "]">>, <<Backtick, "@", "a", Backtick>>, <<"@", "a">>, <<Backtick, "a", ".", "m", "d", Backtick>>, <<"[", "[", "a", ".", "m", "d", "]", "]">>,
    <<"s", "e", "e", " ", "@", "d", "o", "c", "s", "/", "x", ".", "m", "d", ".">>, <<":", "@", "/", "b">>, <<Backtick, "@", ".", "/", "b", Backtick>>, <<"x", "@", "a">>, <<"[", "[", "]", "]">>, <<Backtick, "b", ".", "t", "s", Backtick>> }

Separators == {<<" ">>, <<"\n">>, <<>>}

RECURSIVE TextsOf(_)
TextsOf(n) ==
  IF n = 0 THEN {<<>>}
  ELSE LET shorter == TextsOf(n - 1)
       IN shorter \cup {t \o sep \o f : t \in shorter, sep \in Separators, f \in Fragments}

Texts == TextsOf(MaxFrags)

InitExtract ==
  /\ op = "init"
  /\ content \in Texts
  /\ rawLinks = <<>>
  /\ lastIndex = NoRegexState
  /\ sourcePath = <<>>
  /\ linkPath = <<>>
  /\ resolved = NoString
  /\ ScanIdle
  /\ LoadIdle
  /\ FolderIdle
  /\ files = <<>>
  /\ parseTarget = CLAUDE_MD
  /\ nodes = <<>>
  /\ links = <<>>
  /\ linkSet = {}
  /\ selectedFile = <<>>
  /\ fileTreeData = <<>>

CallExtractLinks ==
  /\ op' = "extractLinks"
  /\ \E r \in {extractLinks(content, lastIndex)} :
        /\ rawLinks' = r.links
        /\ lastIndex' = r.lastIndex
  /\ UNCHANGED <<content, sourcePath, linkPath, resolved>>
  /\ UNCHANGED scanVars
  /\ UNCHANGED <<loadVars, folderVars>>
  /\ UNCHANGED graphVars
  /\ UNCHANGED uiVars

NextExtract == CallExtractLinks

SpecExtract == InitExtract /\ [][NextExtract]_vars

----------------------------------------------------------------------------
(* Inputs of the buildGraphData specification *)

MaxSources == 2   \* files of the list that have content

\* the five files of the scanned folder
RootClaude == [path |-> <<"C", "L", "A", "U", "D", "E", ".", "m", "d">>, name |-> <<"C", "L", "A", "U", "D", "E", ".", "m", "d">>, directory |-> <<>>]
RootAgents == [path |-> <<"a", "g", "e", "n", "t", "s", ".", "m", "d">>, name |-> <<"a", "g", "e", "n", "t", "s", ".", "m", "d">>, directory |-> <<>>]
SubClaude == [path |-> <<"a", "/", "C", "L", "A", "U", "D", "E", ".", "m", "d">>, name |-> <<"C", "L", "A", "U", "D", "E", ".", "m", "d">>, directory |-> <<"a">>]
SubAgents == [path |-> <<"a", "/", "A", "G", "E", "N", "T", "S", ".", "m", "d">>, name |-> <<"A", "G", "E", "N", "T", "S", ".", "m", "d">>, directory |-> <<"a">>]
SubOther == [path |-> <<"a", "/", "b", ".", "m", "d">>, name |-> <<"b", ".", "m", "d">>, directory |-> <<"a">>]

Pool == <<RootClaude, RootAgents, SubClaude, SubAgents, SubOther>>

\* the references a content is made of
References ==
  { <<"@", ".", "/", "C", "L", "A", "U", "D", "E", ".", "m", "d">>, <<"[", "[", "a", "/", "C", "L", "A", "U", "D", "E", "]", "]">>, <<"@", "/", "C", "L", "A", "U", "D", "E", ".", "m", "d">>, <<"@", "/", "a", "/", "b", ".", "m", "d">>, <<Backtick, "a", "/", "b", ".", "m", "d", Backtick>>,
    <<"@", "/", "a", "g", "e", "n", "t", "s", ".", "m", "d">>, <<Backtick, "@", "a", "/", "A", "G", "E", "N", "T", "S", ".", "m", "d", Backtick>> }

Contents == References \cup {r1 \o <<" ">> \o r2 : r1, r2 \in References}

\* the files of Pool but those in dropped, in the order of Pool; the files
\* in holders have the content text, the others none
RECURSIVE ListOf(_, _, _, _)
ListOf(i, dropped, holders, text) ==
  IF i > Len(Pool) THEN <<>>
  ELSE (IF i \in dropped THEN <<>>
        ELSE <<AgentFile(Pool[i].path, Pool[i].name, Pool[i].directory,
                         i \in holders, IF i \in holders THEN text ELSE <<>>)>>)
       \o ListOf(i + 1, dropped, holders, text)

FileLists ==
  { ListOf(1, dropped, holders, text) :
      dropped \in {{}, {Len(Pool)}},
      holders \in {h \in SUBSET {i \in 1..Len(Pool) : isAllowedFileType(Pool[i].name)} :
                      Cardinality(h) <= MaxSources},
      text \in Contents }

Init ==
  /\ op = "init"
  /\ files \in FileLists
  /\ parseTarget = CLAUDE_MD
  /\ nodes = <<>>
  /\ links = <<>>
  /\ linkSet = {}
  /\ selectedFile = <<>>
  /\ fileTreeData = <<>>
  /\ lastIndex = NoRegexState
  /\ content = <<>>
  /\ rawLinks = <<>>
  /\ sourcePath = <<>>
  /\ linkPath = <<>>
  /\ resolved = NoString
  /\ ScanIdle
  /\ LoadIdle
  /\ FolderIdle

\* buildGraphData(files, target)
CallBuildGraphData(target) ==
  /\ op' = "buildGraphData"
  /\ parseTarget' = target
  /\ \E r \in {buildGraphData(files, target, lastIndex, linkSet)} :
        /\ nodes' = r.nodesMap
        /\ links' = r.links
        /\ linkSet' = r.linkSet
        /\ lastIndex' = r.lastIndex
  /\ UNCHANGED <<files, content, rawLinks, sourcePath, linkPath, resolved>>
  /\ UNCHANGED scanVars
  /\ UNCHANGED <<loadVars, folderVars>>
  /\ UNCHANGED uiVars

\* extractLinks(files[i].content) for a file that has content
CallExtractLinksOf(i) ==
  /\ files[i].loaded
  /\ op' = "extractLinks"
  /\ content' = files[i].content
  /\ \E r \in {extractLinks(files[i].content, lastIndex)} :
        /\ rawLinks' = r.links
        /\ lastIndex' = r.lastIndex
  /\ UNCHANGED <<files, parseTarget, nodes, links, linkSet, sourcePath, linkPath, resolved>>
  /\ UNCHANGED scanVars
  /\ UNCHANGED <<loadVars, folderVars>>
  /\ UNCHANGED uiVars

Next ==
  \/ \E target \in ParseMode : CallBuildGraphData(target)
  \/ \E i \in 1..Len(files) : CallExtractLinksOf(i)

Spec == Init /\ [][Next]_vars

----------------------------------------------------------------------------
(* Inputs of the second buildGraphData specification: a root CLAUDE.md and *)
(* a docs directory, with files that are no CLAUDE.md or AGENTS.md, a file *)
(* without the .md extension, and contents that are absent or empty        *)

MaxRefs == 2   \* references in the content of the root file

DocsRootPath == <<"C", "L", "A", "U", "D", "E", ".", "m", "d">>
DocsSubPath == <<"d", "o", "c", "s", "/", "C", "L", "A", "U", "D", "E", ".", "m", "d">>
DocsXPath == <<"d", "o", "c", "s", "/", "x", ".", "m", "d">>
DocsYPath == <<"d", "o", "c", "s", "/", "y", ".", "m", "d">>
DocsBarePath == <<"d", "o", "c", "s", "/", "x">>

DocsReferences ==
  { <<"@", "d", "o", "c", "s", "/", "x", ".", "m", "d">>, <<"@", "d", "o", "c", "s", "/", "y", ".", "m", "d">>, <<"[", "[", "d", "o", "c", "s", "/", "x", "]", "]">>, <<"[", "[", "d", "o", "c", "s", "/", "y", "]", "]">>,
    <<"@", "d", "o", "c", "s", "/", "C", "L", "A", "U", "D", "E", ".", "m", "d">> }

RECURSIVE DocsContentsOf(_)
DocsContentsOf(n) ==
  IF n = 0 THEN {<<>>}
  ELSE LET shorter == DocsContentsOf(n - 1)
       IN shorter \cup {IF t = <<>> THEN r ELSE t \o <<" ">> \o r :
                          t \in shorter, r \in DocsReferences}

\* what the content field of a record can be: absent, or a string
NoContent == [loaded |-> FALSE, content |-> <<>>]
Loaded(text) == [loaded |-> TRUE, content |-> text]

DocsRootContents == {NoContent} \cup {Loaded(t) : t \in DocsContentsOf(MaxRefs)}
DocsSubContents == {NoContent, Loaded(<<>>), Loaded(<<"@", ".", "/", "y", ".", "m", "d">>), Loaded(<<"@", ".", ".", "/", "C", "L", "A", "U", "D", "E", ".", "m", "d">>)}

\* the file list of a folder: the root file, docs/CLAUDE.md if withSub,
\* and the files of docs whose paths are in present
DocsList(rootContent, withSub, subContent, present) ==
  <<AgentFile(DocsRootPath, <<"C", "L", "A", "U", "D", "E", ".", "m", "d">>, <<>>, rootContent.loaded, rootContent.content)>>
  \o (IF withSub
      THEN <<AgentFile(DocsSubPath, <<"C", "L", "A", "U", "D", "E", ".", "m", "d">>, <<"d", "o", "c", "s">>, subContent.loaded, subContent.content)>>
      ELSE <<>>)
  \o (IF DocsXPath \in present
      THEN <<AgentFile(DocsXPath, <<"x", ".", "m", "d">>, <<"d", "o", "c", "s">>, FALSE, <<>>)>> ELSE <<>>)
  \o (IF DocsYPath \in present
      THEN <<AgentFile(DocsYPath, <<"y", ".", "m", "d">>, <<"d", "o", "c", "s">>, FALSE, <<>>)>> ELSE <<>>)
  \o (IF DocsBarePath \in present
      THEN <<AgentFile(DocsBarePath, <<"x">>, <<"d", "o", "c", "s">>, FALSE, <<>>)>> ELSE <<>>)

DocsFileLists ==
  { DocsList(rootContent, TRUE, subContent, present) :
      rootContent \in DocsRootContents,
      subContent \in DocsSubContents,
      present \in SUBSET {DocsXPath, DocsYPath, DocsBarePath} }
  \cup
  { DocsList(rootContent, FALSE, NoContent, present) :
      rootContent \in DocsRootContents,
      present \in SUBSET {DocsXPath, DocsYPath, DocsBarePath} }

InitDocs ==
  /\ op = "init"
  /\ files \in DocsFileLists
  /\ parseTarget = CLAUDE_MD
  /\ nodes = <<>>
  /\ links = <<>>
  /\ linkSet = {}
  /\ selectedFile = <<>>
  /\ fileTreeData = <<>>
  /\ lastIndex = NoRegexState
  /\ content = <<>>
  /\ rawLinks = <<>>
  /\ sourcePath = <<>>
  /\ linkPath = <<>>
  /\ resolved = NoString
  /\ ScanIdle
  /\ LoadIdle
  /\ FolderIdle

NextDocs == \E target \in ParseMode : CallBuildGraphData(target)

SpecDocs == InitDocs /\ [][NextDocs]_vars

----------------------------------------------------------------------------
(* Inputs of the buildFileTree specification: lists of files of a folder,  *)
(* in any order                                                            *)

MaxFiles == 3   \* files in a list handed to buildFileTree

TreePaths ==
  { <<"C", "L", "A", "U", "D", "E", ".", "m", "d">>, <<"A", "G", "E", "N", "T", "S", ".", "m", "d">>, <<"b", "/", "C", "L", "A", "U", "D", "E", ".", "m", "d">>, <<"a", "/", "C", "L", "A", "U", "D", "E", ".", "m", "d">>,
    <<"a", "/", "c", "/", "A", "G", "E", "N", "T", "S", ".", "m", "d">>, <<"a", "/", "B", "/", "C", "L", "A", "U", "D", "E", ".", "m", "d">>, <<"a", "/", "a", "g", "e", "n", "t", "s", ".", "m", "d">> }

\* the record scanDirectory creates for a path
FileOfPath(path) ==
  LET parts == split(path, "/")
  IN AgentFile(path, parts[Len(parts)], join(SubSeq(parts, 1, Len(parts) - 1), "/"),
               FALSE, <<>>)

TreeFileLists ==
  { [i \in 1..Len(ps) |-> FileOfPath(ps[i])] :
      ps \in { q \in UNION {[1..n -> TreePaths] : n \in 0..MaxFiles} :
                 \A i, j \in 1..Len(q) : i # j => q[i] # q[j] } }

InitTree ==
  /\ op = "init"
  /\ files \in TreeFileLists
  /\ parseTarget = CLAUDE_MD
  /\ nodes = <<>>
  /\ links = <<>>
  /\ linkSet = {}
  /\ selectedFile = <<>>
  /\ fileTreeData = <<>>
  /\ lastIndex = NoRegexState
  /\ content = <<>>
  /\ rawLinks = <<>>
  /\ sourcePath = <<>>
  /\ linkPath = <<>>
  /\ resolved = NoString
  /\ ScanIdle
  /\ LoadIdle
  /\ FolderIdle

\* buildFileTree(files)
CallBuildFileTree ==
  /\ op = "init"
  /\ op' = "buildFileTree"
  /\ fileTreeData' = buildFileTree(files)
  /\ UNCHANGED <<sourcePath, linkPath, resolved, content, rawLinks, lastIndex,
                 selectedFile>>
  /\ UNCHANGED scanVars
  /\ UNCHANGED <<loadVars, folderVars>>
  /\ UNCHANGED graphVars

NextTree == CallBuildFileTree

SpecTree == InitTree /\ [][NextTree]_vars

----------------------------------------------------------------------------
(* The application component: its state is files, selectedFile and         *)
(* parseTarget; graphData (nodes and links) and fileTreeData are computed  *)
(* from the state on every render                                          *)

\* graphData.nodes.map((node) => node.file)
indexedFiles(graphNodes) == [n \in 1..Len(graphNodes) |-> graphNodes[n].file]

\* the two useMemo computations of a render with the state fs and target
Render(fs, target) ==
  \E r \in {buildGraphData(fs, target, lastIndex, linkSet)} :
    /\ nodes' = r.nodesMap
    /\ links' = r.links
    /\ linkSet' = r.linkSet
    /\ lastIndex' = r.lastIndex
    /\ fileTreeData' = buildFileTree(indexedFiles(r.nodesMap))

\* the files the explorer shows: the fileData of the leaves of the tree
RECURSIVE LeafFiles(_)
LeafFiles(level) ==
  IF Len(level) = 0 THEN {}
  ELSE (IF Head(level).type = "file" THEN {Head(level).fileData[1]} ELSE {})
       \cup (IF Head(level).children # <<>> THEN LeafFiles(Head(level).children[1]) ELSE {})
       \cup LeafFiles(Tail(level))

\* no switch of the parse target
targetAfterSelectKept(file, target) == target

\* the parse target after handleFileSelect(file)
targetAfterSelect(file, target) ==
  IF toUpperCase(file.name) = <<"A", "G", "E", "N", "T", "S", ".", "M", "D">> THEN AGENTS_MD
  ELSE IF toUpperCase(file.name) = <<"C", "L", "A", "U", "D", "E", ".", "M", "D">> THEN CLAUDE_MD
  ELSE target

\* the folders of the application specification: files of Pool, all with
\* the same content
AppTexts == {<<>>} \cup References

AppFolders ==
  { ListOf(1, dropped, 1..Len(Pool), text) :
      dropped \in SUBSET (1..Len(Pool)), text \in AppTexts }

\* the application once a folder has been selected and its files loaded
InitApp ==
  /\ op = "App"
  /\ files \in AppFolders
  /\ parseTarget = CLAUDE_MD
  /\ selectedFile = <<>>
  /\ \E r \in {buildGraphData(files, CLAUDE_MD, NoRegexState, {})} :
       /\ nodes = r.nodesMap
       /\ links = r.links
       /\ linkSet = r.linkSet
       /\ lastIndex = r.lastIndex
       /\ fileTreeData = buildFileTree(indexedFiles(r.nodesMap))
  /\ content = <<>>
  /\ rawLinks = <<>>
  /\ sourcePath = <<>>
  /\ linkPath = <<>>
  /\ resolved = NoString
  /\ ScanIdle
  /\ LoadIdle
  /\ FolderIdle

\* onParseModeChange={setParseTarget}: the selector of the header
onParseModeChange(mode) ==
  /\ op' = "App"
  /\ parseTarget' = mode
  /\ Render(files, mode)
  /\ UNCHANGED <<files, selectedFile, content, rawLinks, sourcePath, linkPath, resolved>>
  /\ UNCHANGED scanVars
  /\ UNCHANGED <<loadVars, folderVars>>

\* handleFileSelect(file): a click on a file of the explorer
handleFileSelect(file) ==
  /\ op' = "App"
  /\ selectedFile' = <<file>>
  /\ parseTarget' = targetAfterSelect(file, parseTarget)
  /\ Render(files, targetAfterSelect(file, parseTarget))
  /\ UNCHANGED <<files, content, rawLinks, sourcePath, linkPath, resolved>>
  /\ UNCHANGED scanVars
  /\ UNCHANGED <<loadVars, folderVars>>

\* onNodeClick={setSelectedFile}: a click on a node of the graph
onNodeClick(file) ==
  /\ op' = "App"
  /\ selectedFile' = <<file>>
  /\ Render(files, parseTarget)
  /\ UNCHANGED <<files, parseTarget, content, rawLinks, sourcePath, linkPath, resolved>>
  /\ UNCHANGED scanVars
  /\ UNCHANGED <<loadVars, folderVars>>

NextApp ==
  \/ \E mode \in ParseMode : onParseModeChange(mode)
  \/ \E file \in LeafFiles(fileTreeData) : handleFileSelect(file)
  \/ \E n \in 1..Len(nodes) : onNodeClick(nodes[n].file)

SpecApp == InitApp /\ [][NextApp]_vars

----------------------------------------------------------------------------
(* The application component, selecting folders.  A call of                *)
(* handleSelectFolder is a record of selections: pc is the await it is at  *)
(* ("showDirectoryPicker", "scanDirectory", "loadAllFileContents") or      *)
(* "done", dirHandle the folder the picker gave, foundFiles what           *)
(* scanDirectory returns for it.  An action is the code of the handler     *)
(* from one await to the next, with the render that follows it             *)

MaxSelections == 2

SCANNING == <<"S", "c", "a", "n", "n", "i", "n", "g", ".", ".", ".">>
NO_FILES_ALERT == <<"N", "o", " ", "A", "G", "E", "N", "T", "S", ".", "m", "d", " ", "o", "r", " ", "C", "L", "A", "U", "D", "E", ".", "m", "d", " ", "f", "i", "l", "e", "s", " ", "f", "o", "u", "n", "d", " ", "i", "n", " ", "t", "h", "e", " ", "s", "e", "l", "e", "c", "t", "e", "d", " ", "f", "o", "l", "d", "e", "r", ".">>
FAILED_ALERT == <<"F", "a", "i", "l", "e", "d", " ", "t", "o", " ", "a", "c", "c", "e", "s", "s", " ", "f", "o", "l", "d", "e", "r", ".", " ", "P", "l", "e", "a", "s", "e", " ", "t", "r", "y", " ", "a", "g", "a", "i", "n", ".">>

\* Boolean(scanStatus): the button Select Local Folder is disabled
isScanning == scanStatus # <<>>

\* the files behind the handles of a folder: the path and the text of each
RECURSIVE fileTexts(_, _)
fileTexts(dirHandle, relativePath) ==
  UNION { IF dirHandle.entries[i].kind = "file"
          THEN {[path |-> buildEntryPath(relativePath, dirHandle.entries[i].name),
                 text |-> dirHandle.entries[i].text]}
          ELSE IF dirHandle.entries[i].kind = "directory"
          THEN fileTexts(dirHandle.entries[i].handle,
                         buildEntryPath(relativePath, dirHandle.entries[i].name))
          ELSE {} :
          i \in 1..Len(dirHandle.entries) }

\* the handles of the records scanDirectory returns for a folder: every
\* read succeeds
handlesOf(dirHandle) ==
  [path \in {ft.path : ft \in fileTexts(dirHandle, <<>>)} |->
     [ok |-> TRUE,
      text |-> (CHOOSE ft \in fileTexts(dirHandle, <<>>) : ft.path = path).text]]

\* the folders the user can pick
FolderOne ==
  [entries |-> <<FileEntry(<<"C", "L", "A", "U", "D", "E", ".", "m", "d">>, <<"@", ".", "/", "A", "G", "E", "N", "T", "S", ".", "m", "d">>),
                 FileEntry(<<"A", "G", "E", "N", "T", "S", ".", "m", "d">>, <<"@", "/", "C", "L", "A", "U", "D", "E", ".", "m", "d">>)>>]

FolderTwo ==
  [entries |-> <<DirectoryEntry(<<"d", "o", "c", "s">>,
                   [entries |-> <<FileEntry(<<"C", "L", "A", "U", "D", "E", ".", "m", "d">>, <<"@", "/", "A", "G", "E", "N", "T", "S", ".", "m", "d">>)>>]),
                 FileEntry(<<"A", "G", "E", "N", "T", "S", ".", "m", "d">>, <<"@", "d", "o", "c", "s", "/", "C", "L", "A", "U", "D", "E", ".", "m", "d">>)>>]

FolderWithoutMarkdown == [entries |-> <<FileEntry(<<"n", "o", "t", "e", "s", ".", "t", "x", "t">>, <<>>)>>]

PickableFolders == {FolderOne, FolderTwo, FolderWithoutMarkdown}

\* the names of the errors with which showDirectoryPicker rejects
PickerErrors == {"AbortError", "SecurityError"}

\* the application as it is mounted: no files
InitFolder ==
  /\ op = "App"
  /\ files = <<>>
  /\ parseTarget = CLAUDE_MD
  /\ selectedFile = <<>>
  /\ scanStatus = <<>>
  /\ selections = <<>>
  /\ lastAlert = <<>>
  /\ \E r \in {buildGraphData(<<>>, CLAUDE_MD, NoRegexState, {})} :
       /\ nodes = r.nodesMap
       /\ links = r.links
       /\ linkSet = r.linkSet
       /\ lastIndex = r.lastIndex
       /\ fileTreeData = buildFileTree(indexedFiles(r.nodesMap))
  /\ content = <<>>
  /\ rawLinks = <<>>
  /\ sourcePath = <<>>
  /\ linkPath = <<>>
  /\ resolved = NoString
  /\ ScanIdle
  /\ LoadIdle

\* nothing is rendered anew: no state of the component changes
NoRender == UNCHANGED <<nodes, links, linkSet, lastIndex, fileTreeData>>

\* a click on Select Local Folder: handleSelectFolder up to the await of
\* showDirectoryPicker.  The button is enabled, and no picker is open: the
\* picker is a modal dialog
handleSelectFolder ==
  /\ ~isScanning
  /\ Len(selections) < MaxSelections
  /\ \A c \in 1..Len(selections) : selections[c].pc # "showDirectoryPicker"
  /\ op' = "App"
  /\ selections' = Append(selections, [pc |-> "showDirectoryPicker",
                                       dirHandle |-> [entries |-> <<>>],
                                       foundFiles |-> <<>>])
  /\ NoRender
  /\ UNCHANGED <<files, parseTarget, selectedFile, scanStatus, lastAlert>>
  /\ UNCHANGED <<content, rawLinks, sourcePath, linkPath, resolved>>
  /\ UNCHANGED <<scanVars, loadVars>>

\* the picker resolves with a folder: setScanStatus("Scanning...") and the
\* call of scanDirectory
pickerResolves(c, dirHandle) ==
  /\ selections[c].pc = "showDirectoryPicker"
  /\ op' = "App"
  /\ scanStatus' = SCANNING
  /\ selections' = [selections EXCEPT
                      ![c] = [pc |-> "scanDirectory", dirHandle |-> dirHandle,
                              foundFiles |-> scanDirectory(dirHandle, <<>>, <<>>).foundFiles]]
  /\ NoRender
  /\ UNCHANGED <<files, parseTarget, selectedFile, lastAlert>>
  /\ UNCHANGED <<content, rawLinks, sourcePath, linkPath, resolved>>
  /\ UNCHANGED <<scanVars, loadVars>>

\* the picker rejects: the catch clause
pickerRejects(c, errorName) ==
  /\ selections[c].pc = "showDirectoryPicker"
  /\ op' = "App"
  /\ scanStatus' = <<>>
  /\ lastAlert' = IF errorName # "AbortError" THEN FAILED_ALERT ELSE lastAlert
  /\ selections' = [selections EXCEPT ![c].pc = "done"]
  /\ NoRender
  /\ UNCHANGED <<files, parseTarget, selectedFile>>
  /\ UNCHANGED <<content, rawLinks, sourcePath, linkPath, resolved>>
  /\ UNCHANGED <<scanVars, loadVars>>

\* foundFiles.length > 0: setFiles, setSelectedFile(null) and the call of
\* loadAllFileContents
filesFound(c) ==
  /\ Len(selections[c].foundFiles) > 0
  /\ files' = selections[c].foundFiles
  /\ selectedFile' = <<>>
  /\ selections' = [selections EXCEPT ![c].pc = "loadAllFileContents"]
  /\ Render(selections[c].foundFiles, parseTarget)
  /\ UNCHANGED <<parseTarget, lastAlert>>

\* the else branch with setFiles([]) and setSelectedFile(null) in it
noFilesFoundClearing(c) ==
  /\ Len(selections[c].foundFiles) = 0
  /\ lastAlert' = NO_FILES_ALERT
  /\ selections' = [selections EXCEPT ![c].pc = "done"]
  /\ files' = <<>>
  /\ selectedFile' = <<>>
  /\ Render(<<>>, parseTarget)
  /\ UNCHANGED parseTarget

\* the else branch: the alert
noFilesFound(c) ==
  /\ Len(selections[c].foundFiles) = 0
  /\ lastAlert' = NO_FILES_ALERT
  /\ selections' = [selections EXCEPT ![c].pc = "done"]
  /\ NoRender
  /\ UNCHANGED <<files, parseTarget, selectedFile>>

\* the scan resolves and scanStatus is left as it is
scanResolvesKeepingStatus(c) ==
  /\ selections[c].pc = "scanDirectory"
  /\ op' = "App"
  /\ UNCHANGED scanStatus
  /\ (filesFound(c) \/ noFilesFound(c))
  /\ UNCHANGED <<content, rawLinks, sourcePath, linkPath, resolved>>
  /\ UNCHANGED <<scanVars, loadVars>>

\* scanDirectory resolves: setScanStatus("") and the if statement
scanResolves(c) ==
  /\ selections[c].pc = "scanDirectory"
  /\ op' = "App"
  /\ scanStatus' = <<>>
  /\ (filesFound(c) \/ noFilesFound(c))
  /\ UNCHANGED <<content, rawLinks, sourcePath, linkPath, resolved>>
  /\ UNCHANGED <<scanVars, loadVars>>

\* loadAllFileContents resolves: setFiles(filesWithContent)
loadResolves(c) ==
  /\ selections[c].pc = "loadAllFileContents"
  /\ op' = "App"
  /\ \E filesWithContent \in {loadAllFileContents(selections[c].foundFiles,
                                                  handlesOf(selections[c].dirHandle))} :
       /\ files' = filesWithContent
       /\ Render(filesWithContent, parseTarget)
  /\ selections' = [selections EXCEPT ![c].pc = "done"]
  /\ UNCHANGED <<parseTarget, selectedFile, scanStatus, lastAlert>>
  /\ UNCHANGED <<content, rawLinks, sourcePath, linkPath, resolved>>
  /\ UNCHANGED <<scanVars, loadVars>>

NextFolder ==
  \/ handleSelectFolder
  \/ \E c \in 1..Len(selections) : \E dirHandle \in PickableFolders :
       pickerResolves(c, dirHandle)
  \/ \E c \in 1..Len(selections) : \E errorName \in PickerErrors :
       pickerRejects(c, errorName)
  \/ \E c \in 1..Len(selections) : scanResolves(c)
  \/ \E c \in 1..Len(selections) : loadResolves(c)
  \/ \E mode \in ParseMode : onParseModeChange(mode)
  \/ \E file \in LeafFiles(fileTreeData) : handleFileSelect(file)

SpecFolder == InitFolder /\ [][NextFolder]_vars

\* a scan that is pending completes: scanDirectory never rejects and the
\* reads of directories it waits for end
SpecFolderLive ==
  /\ SpecFolder
  /\ WF_vars(\E c \in 1..Len(selections) : scanResolves(c))

----------------------------------------------------------------------------
(* Inputs of the scanDirectory specification: folders with markdown files  *)
(* in the root, the directories foo and foobar in either order, a .git     *)
(* directory, and .gitignore files in the root and in foo                  *)

\* an optional .gitignore: <<>> for none, <<text>> for a file with the text
RootIgnores ==
  { <<>>, <<<<"n", "o", "t", "e", "s", ".", "m", "d", "\n">>>>, <<<<"#", " ", "r", "u", "l", "e", "s", "\n", "\n", "f", "o", "o", "b", "a", "r", "/", "\n">>>>, <<<<"!", "C", "L", "A", "U", "D", "E", ".", "m", "d", "\n", "/", "f", "o", "o", "\n">>>> }

FooIgnores ==
  { <<>>, <<<<"x", ".", "m", "d">>>>, <<<<"/", "C", "L", "A", "U", "D", "E", ".", "m", "d", "\n">>>>, <<<<"*", ".", "m", "d">>>> }

RootFileNames ==
  { <<>>, <<<<"n", "o", "t", "e", "s", ".", "m", "d">>>>, <<<<"C", "L", "A", "U", "D", "E", ".", "m", "d">>>>, <<<<"a", "g", "e", "n", "t", "s", ".", "m", "d">>, <<"n", "o", "t", "e", "s", ".", "m", "d">>>> }

IgnoreEntries(ignore) ==
  [i \in 1..Len(ignore) |-> FileEntry(<<".", "g", "i", "t", "i", "g", "n", "o", "r", "e">>, ignore[i])]

MarkdownEntries(names) == [i \in 1..Len(names) |-> FileEntry(names[i], <<>>)]

SubHandle(ignore) ==
  [entries |-> IgnoreEntries(ignore) \o MarkdownEntries(<<<<"C", "L", "A", "U", "D", "E", ".", "m", "d">>, <<"x", ".", "m", "d">>>>)]

\* a directory whose iterator rejects after CLAUDE.md
FailingHandle(ignore) ==
  [entries |-> IgnoreEntries(ignore) \o MarkdownEntries(<<<<"C", "L", "A", "U", "D", "E", ".", "m", "d">>>>)
               \o <<ThrowEntry>> \o MarkdownEntries(<<<<"x", ".", "m", "d">>>>)]

FooHandle(ignore, fails) == IF fails THEN FailingHandle(ignore) ELSE SubHandle(ignore)

\* the directories of a folder: foo and foobar, foo first or last, and .git
Directories(fooIgnore, fooFirst, withGit, fooFails) ==
  (IF withGit THEN <<DirectoryEntry(<<".", "g", "i", "t">>, SubHandle(<<>>))>> ELSE <<>>)
  \o (IF fooFirst
      THEN <<DirectoryEntry(<<"f", "o", "o">>, FooHandle(fooIgnore, fooFails)),
             DirectoryEntry(<<"f", "o", "o", "b", "a", "r">>, SubHandle(<<>>))>>
      ELSE <<DirectoryEntry(<<"f", "o", "o", "b", "a", "r">>, SubHandle(<<>>)),
             DirectoryEntry(<<"f", "o", "o">>, FooHandle(fooIgnore, fooFails))>>)

Folders ==
  { [entries |-> IgnoreEntries(rootIgnore)
                 \o Directories(fooIgnore, fooFirst, withGit, fooFails)
                 \o MarkdownEntries(names)] :
      rootIgnore \in RootIgnores, names \in RootFileNames,
      fooIgnore \in FooIgnores, fooFirst \in BOOLEAN, withGit \in BOOLEAN,
      fooFails \in BOOLEAN }
  \cup
  { [entries |-> IgnoreEntries(rootIgnore) \o Directories(<<>>, TRUE, withGit, FALSE)
                 \o <<ThrowEntry>> \o MarkdownEntries(names)] :
      rootIgnore \in RootIgnores, names \in RootFileNames, withGit \in BOOLEAN }
  \cup
  { [entries |-> IgnoreEntries(rootIgnore) \o MarkdownEntries(names)] :
      rootIgnore \in RootIgnores, names \in RootFileNames }

InitScan ==
  /\ op = "init"
  /\ pickedFolder \in Folders
  /\ patternsByDir = <<>>
  /\ queryPath = <<>>
  /\ queryIsDirectory = FALSE
  /\ ignored = FALSE
  /\ visitedDirs = <<>>
  /\ LoadIdle
  /\ FolderIdle
  /\ files = <<>>
  /\ parseTarget = CLAUDE_MD
  /\ nodes = <<>>
  /\ links = <<>>
  /\ linkSet = {}
  /\ selectedFile = <<>>
  /\ fileTreeData = <<>>
  /\ lastIndex = NoRegexState
  /\ content = <<>>
  /\ rawLinks = <<>>
  /\ sourcePath = <<>>
  /\ linkPath = <<>>
  /\ resolved = NoString

\* scanDirectory(dirHandle): relativePath is "" and the Map is new
CallScanDirectory ==
  /\ op = "init"
  /\ op' = "scanDirectory"
  /\ \E r \in {scanDirectory(pickedFolder, <<>>, <<>>)} :
       /\ files' = r.foundFiles
       /\ patternsByDir' = r.gitignorePatterns
       /\ visitedDirs' = r.visited
  /\ UNCHANGED <<pickedFolder, queryPath, queryIsDirectory, ignored>>
  /\ UNCHANGED <<loadVars, folderVars>>
  /\ UNCHANGED <<parseTarget, nodes, links, linkSet, selectedFile, fileTreeData,
                 lastIndex, content, rawLinks, sourcePath, linkPath, resolved>>

NextScan == CallScanDirectory

SpecScan == InitScan /\ [][NextScan]_vars

----------------------------------------------------------------------------
(* Inputs of the shouldIgnore specification: the entry that is visited and *)
(* the Map as the directories visited before it have left it               *)

\* the entry: its path and whether it is a directory
Queries ==
  { <<<<"x", ".", "m", "d">>, FALSE>>, <<<<"f", "o", "o", "/", "x", ".", "m", "d">>, FALSE>>, <<<<"f", "o", "o", "b", "a", "r", "/", "x", ".", "m", "d">>, FALSE>>,
    <<<<"f", "o", "o", "/", "s", "u", "b", "/", "x", ".", "m", "d">>, FALSE>>, <<<<"f", "o", "o", "/", "s", "u", "b", "x", "/", "C", "L", "A", "U", "D", "E", ".", "m", "d">>, FALSE>>,
    <<<<"f", "o", "o", "b", "a", "r">>, TRUE>>, <<<<"f", "o", "o", "/", "s", "u", "b">>, TRUE>>, <<<<"f", "o", "o", "/", "s", "u", "b", "x">>, TRUE>> }

PatternLists ==
  { <<<<"x", ".", "m", "d">>>>, <<<<"*", ".", "m", "d">>, <<"!", "x", ".", "m", "d">>>>, <<<<"/", "x", ".", "m", "d">>>>, <<<<"s", "u", "b", "/">>, <<"x", ".", "m", "d", "/">>>>,
    <<<<"!", "x", ".", "m", "d">>, <<"b", "a", "r">>>>, <<<<"*", "*", "/", "C", "L", "A", "U", "D", "E", ".", "m", "d">>, <<"s", "u", "?">>>> }

\* the directories with a .gitignore, in the order they are visited
IgnoreDirs == <<<<>>, <<"f", "o", "o">>, <<"f", "o", "o", "/", "s", "u", "b">>>>

PatternMaps ==
  {<<>>}
  \cup { <<[dir |-> IgnoreDirs[d], patterns |-> ps]>> :
           d \in 1..Len(IgnoreDirs), ps \in PatternLists }
  \cup { <<[dir |-> IgnoreDirs[d[1]], patterns |-> ps],
           [dir |-> IgnoreDirs[d[2]], patterns |-> qs]>> :
           d \in {x \in (1..Len(IgnoreDirs)) \X (1..Len(IgnoreDirs)) : x[1] < x[2]},
           ps \in PatternLists, qs \in PatternLists }

\* the entry has not been scanned yet: no directory of the Map is the entry
\* or lies in it
VisitedBefore(query, map) ==
  \A e \in 1..Len(map) : ~startsWith(map[e].dir, query[1]) \/ map[e].dir = <<>>

InitIgnore ==
  /\ op = "init"
  /\ \E query \in Queries :
       /\ queryPath = query[1]
       /\ queryIsDirectory = query[2]
       /\ patternsByDir \in {m \in PatternMaps : VisitedBefore(query, m)}
  /\ pickedFolder = [entries |-> <<>>]
  /\ ignored = FALSE
  /\ visitedDirs = <<>>
  /\ LoadIdle
  /\ FolderIdle
  /\ files = <<>>
  /\ parseTarget = CLAUDE_MD
  /\ nodes = <<>>
  /\ links = <<>>
  /\ linkSet = {}
  /\ selectedFile = <<>>
  /\ fileTreeData = <<>>
  /\ lastIndex = NoRegexState
  /\ content = <<>>
  /\ rawLinks = <<>>
  /\ sourcePath = <<>>
  /\ linkPath = <<>>
  /\ resolved = NoString

\* shouldIgnore(relativePath, isDirectory, gitignorePatterns)
CallShouldIgnore ==
  /\ op = "init"
  /\ op' = "shouldIgnore"
  /\ ignored' = shouldIgnore(queryPath, queryIsDirectory, patternsByDir)
  /\ UNCHANGED <<pickedFolder, patternsByDir, queryPath, queryIsDirectory, visitedDirs>>
  /\ UNCHANGED <<loadVars, folderVars>>
  /\ UNCHANGED <<files, parseTarget, nodes, links, linkSet, selectedFile, fileTreeData,
                 lastIndex, content, rawLinks, sourcePath, linkPath, resolved>>

NextIgnore == CallShouldIgnore

SpecIgnore == InitIgnore /\ [][NextIgnore]_vars

----------------------------------------------------------------------------
(* Inputs of the third buildGraphData specification: directories whose     *)
(* names contain "->", the separator of the keys of linkSet                *)

KeysRootPath == <<"C", "L", "A", "U", "D", "E", ".", "m", "d">>
KeysSubPath == <<"C", "L", "A", "U", "D", "E", ".", "m", "d", "-", ">", "d", "/", "C", "L", "A", "U", "D", "E", ".", "m", "d">>
KeysLongPath == <<"d", "/", "C", "L", "A", "U", "D", "E", ".", "m", "d", "-", ">", "e", "/", "x", ".", "m", "d">>
KeysShortPath == <<"e", "/", "x", ".", "m", "d">>

\* what the two CLAUDE.md files can contain
KeysContents ==
  { NoContent, Loaded(<<"[", "[", "d", "/", "C", "L", "A", "U", "D", "E", ".", "m", "d", "-", ">", "e", "/", "x", ".", "m", "d", "]", "]">>), Loaded(<<"@", "/", "e", "/", "x", ".", "m", "d">>),
    Loaded(<<"[", "[", "e", "/", "x", "]", "]", " ", "@", "e", "/", "x", ".", "m", "d">>), Loaded(<<"[", "[", "/", "C", "L", "A", "U", "D", "E", ".", "m", "d", "-", ">", "d", "/", "C", "L", "A", "U", "D", "E", ".", "m", "d", "]", "]">>) }

KeysFileLists ==
  { [i \in 1..Len(ps) |->
       IF ps[i] = KeysRootPath
       THEN [FileOfPath(ps[i]) EXCEPT !.loaded = rootContent.loaded,
                                      !.content = rootContent.content]
       ELSE IF ps[i] = KeysSubPath
       THEN [FileOfPath(ps[i]) EXCEPT !.loaded = subContent.loaded,
                                      !.content = subContent.content]
       ELSE FileOfPath(ps[i])] :
      ps \in { <<KeysRootPath, KeysSubPath, KeysLongPath, KeysShortPath>>,
               <<KeysSubPath, KeysRootPath, KeysShortPath, KeysLongPath>>,
               <<KeysRootPath, KeysSubPath, KeysShortPath>>,
               <<KeysRootPath, KeysLongPath, KeysShortPath>> },
      rootContent \in KeysContents, subContent \in KeysContents }

InitKeys ==
  /\ op = "init"
  /\ files \in KeysFileLists
  /\ parseTarget = CLAUDE_MD
  /\ nodes = <<>>
  /\ links = <<>>
  /\ linkSet = {}
  /\ selectedFile = <<>>
  /\ fileTreeData = <<>>
  /\ lastIndex = NoRegexState
  /\ content = <<>>
  /\ rawLinks = <<>>
  /\ sourcePath = <<>>
  /\ linkPath = <<>>
  /\ resolved = NoString
  /\ ScanIdle
  /\ LoadIdle
  /\ FolderIdle

NextKeys == \E target \in ParseMode : CallBuildGraphData(target)

SpecKeys == InitKeys /\ [][NextKeys]_vars

----------------------------------------------------------------------------
(* Inputs of the loadAllFileContents specification: lists of records with  *)
(* and without content, and disks on which a path is absent, unreadable or *)
(* readable                                                                *)

MaxLoad == 2

LoadPaths == {<<"C", "L", "A", "U", "D", "E", ".", "m", "d">>, <<"d", "o", "c", "s", "/", "A", "G", "E", "N", "T", "S", ".", "m", "d">>, <<"d", "o", "c", "s", "/", "x", ".", "m", "d">>, <<"n", "o", "t", "e", "s", ".", "m", "d">>}

\* the content of a record before the call: none, the empty string, a text
ContentsBefore == {NoContent, Loaded(<<>>), Loaded(<<"@", "d", "o", "c", "s", "/", "x", ".", "m", "d">>)}

\* the lists of up to MaxLoad records with distinct paths
LoadLists ==
  UNION { { [i \in 1..n |->
               [FileOfPath(paths[i]) EXCEPT !.loaded = before[i].loaded,
                                            !.content = before[i].content]] :
              paths \in {ps \in [1..n -> LoadPaths] :
                           \A i, j \in 1..n : i # j => ps[i] # ps[j]},
              before \in [1..n -> ContentsBefore] } :
          n \in 0..MaxLoad }

\* what is behind a handle: a read that fails or a read that gives a text
Reads == {[ok |-> FALSE, text |-> <<>>], [ok |-> TRUE, text |-> <<"@", ".", "/", "y", ".", "m", "d">>]}

Disks == UNION { [present -> Reads] : present \in SUBSET LoadPaths }

InitLoad ==
  /\ op = "init"
  /\ files \in LoadLists
  /\ disk \in Disks
  /\ loadedFiles = <<>>
  /\ ScanIdle
  /\ FolderIdle
  /\ parseTarget = CLAUDE_MD
  /\ nodes = <<>>
  /\ links = <<>>
  /\ linkSet = {}
  /\ selectedFile = <<>>
  /\ fileTreeData = <<>>
  /\ lastIndex = NoRegexState
  /\ content = <<>>
  /\ rawLinks = <<>>
  /\ sourcePath = <<>>
  /\ linkPath = <<>>
  /\ resolved = NoString

\* loadAllFileContents(files)
CallLoadAllFileContents ==
  /\ op = "init"
  /\ op' = "loadAllFileContents"
  /\ loadedFiles' = loadAllFileContents(files, disk)
  /\ UNCHANGED <<files, disk, scanVars, folderVars>>
  /\ UNCHANGED <<parseTarget, nodes, links, linkSet, selectedFile, fileTreeData,
                 lastIndex, content, rawLinks, sourcePath, linkPath, resolved>>

NextLoad == CallLoadAllFileContents

SpecLoad == InitLoad /\ [][NextLoad]_vars

----------------------------------------------------------------------------
(* Properties of extractLinks *)

\* the successive matches of a pattern in a text, from index from on
RECURSIVE MatchesFrom(_, _, _)
MatchesFrom(pattern, text, from) ==
  LET r == exec(pattern, text, from)
  IN IF ~r.match.found THEN <<>>
     ELSE <<r.match>> \o MatchesFrom(pattern, text, r.lastIndex)

\* the captures of all matches: syntax by syntax in the order of
\* LINK_PATTERNS, and by position within one syntax
RECURSIVE CapturesBySyntax(_, _)
CapturesBySyntax(text, k) ==
  IF k > Len(LINK_PATTERNS) THEN <<>>
  ELSE LET ms == MatchesFrom(LINK_PATTERNS[k], text, 0)
       IN [i \in 1..Len(ms) |-> ms[i].group1] \o CapturesBySyntax(text, k + 1)

\* all matches of all syntaxes in a text
AllMatches(text) ==
  UNION {{MatchesFrom(LINK_PATTERNS[k], text, 0)[i] :
            i \in 1..Len(MatchesFrom(LINK_PATTERNS[k], text, 0))} :
          k \in 1..Len(LINK_PATTERNS)}

\* index of the first occurrence of a reference in the text: the least start
\* of a match, of any syntax, that captures it
FirstOccurrence(text, ref) ==
  Min({m.start : m \in {x \in AllMatches(text) : x.group1 = ref}})

FirstIndex(list, x) == Min({i \in 1..Len(list) : list[i] = x})

RECURSIVE IsSubsequence(_, _)
IsSubsequence(a, b) ==
  IF Len(a) = 0 THEN TRUE
  ELSE IF Len(b) = 0 THEN FALSE
  ELSE IF Head(a) = Head(b) THEN IsSubsequence(Tail(a), Tail(b))
  ELSE IsSubsequence(a, Tail(b))

\* C6: the list returned by extractLinks contains no string twice.
C6_NoDuplicateLinks ==
  op = "extractLinks" =>
    \A i, j \in 1..Len(rawLinks) : i # j => rawLinks[i] # rawLinks[j]

C17_NoTrailingPeriod ==
  op = "extractLinks" =>
    /\ content = <<"s", "e", "e", " ", "@", "d", "o", "c", "s", "/", "x", ".", "m", "d", ".">> => rawLinks = <<<<"@", "d", "o", "c", "s", "/", "x", ".", "m", "d">>>>
    /\ \A i \in 1..Len(rawLinks) :
         (Len(rawLinks[i]) >= 2 /\ rawLinks[i][Len(rawLinks[i])] = ".")
           => rawLinks[i][Len(rawLinks[i]) - 1] \in {"/", "."}

\* C18: every scanning loop of extractLinks makes progress on every
\* iteration: whatever the cursor of a pattern is, a match is not empty (the
\* wiki match of "[[]]" included) and leaves the cursor at its end, beyond
\* where the search began, so that a pattern has no more matches in a text
\* than the text has characters and extractLinks returns.
C18_LoopsProgress ==
  /\ \A k \in 1..Len(LINK_PATTERNS) :
       \A s \in 0..(Len(content) - 1) :
         \A m \in {matchAt(LINK_PATTERNS[k], content, s)} :
           m.found => m.start = s /\ m.end > m.start /\ m.end <= Len(content)
  /\ \A k \in 1..Len(LINK_PATTERNS) :
       \A ms \in {MatchesFrom(LINK_PATTERNS[k], content, 0)} :
         /\ Len(ms) <= Len(content)
         /\ \A i \in 1..(Len(ms) - 1) : ms[i].end <= ms[i + 1].start
  /\ op = "extractLinks" => Len(rawLinks) <= Len(content)

\* extractLinks has returned on a text with the wiki link "[[]]", whose
\* capture is the empty string
C18_Witness ==
  /\ op = "extractLinks"
  /\ \E i \in 1..(Len(content) - 3) : SubSeq(content, i, i + 3) = <<"[", "[", "]", "]">>
  /\ includes(rawLinks, <<>>)

----------------------------------------------------------------------------
(* Properties of buildGraphData *)

\* the files of the list with a given path
FileAt(path) == CHOOSE f \in {files[i] : i \in 1..Len(files)} : f.path = path

\* the other one of the two parse targets
OtherType(target) == IF target = CLAUDE_MD THEN AGENTS_MD ELSE CLAUDE_MD

\* a root-level file named like the type that is not selected
IsRootOfOtherType(f, target) ==
  f.directory = <<>> /\ toLowerCase(f.name) = toLowerCase(OtherType(target))

\* the files whose content buildGraphData scans, and what their raw
\* references resolve to
Scanned(i) ==
  /\ files[i].loaded
  /\ files[i].content # <<>>
  /\ isAllowedFileType(files[i].name)
  /\ ~IsRootOfOtherType(files[i], parseTarget)

TargetsOf(i) ==
  LET raw == extractLinks(files[i].content, NoRegexState).links
  IN [k \in 1..Len(raw) |-> findTargetFile(resolvePath(files[i].path, raw[k]), files)]

\* C1: no edge returned by buildGraphData has its source equal to its target.
C1_NoSelfLoops ==
  op = "buildGraphData" => \A i \in 1..Len(links) : links[i].source # links[i].target

\* a scanned file has a reference that resolves to the file itself
C1_Witness ==
  /\ op = "buildGraphData"
  /\ \E i \in 1..Len(files) :
       /\ Scanned(i)
       /\ \E k \in 1..Len(TargetsOf(i)) :
            TargetsOf(i)[k].found /\ TargetsOf(i)[k].file.path = files[i].path

\* C2: every ordered pair (source, target) occurs at most once in the edges
\* returned by one call.
C2_EdgeUniqueness ==
  op = "buildGraphData" =>
    \A i, j \in 1..Len(links) : i # j => links[i] # links[j]

\* a scanned file has two references that resolve to the same other file,
\* which is the target of one of its edges
C2_Witness ==
  /\ op = "buildGraphData"
  /\ \E i \in 1..Len(files) :
       /\ Scanned(i)
       /\ \E k, l \in 1..Len(TargetsOf(i)) :
            /\ k < l
            /\ TargetsOf(i)[k].found
            /\ TargetsOf(i)[l] = TargetsOf(i)[k]
            /\ \E e \in 1..Len(links) :
                 links[e] = [source |-> files[i].path, target |-> TargetsOf(i)[k].file.path]

\* C3: both endpoints of every returned edge are ids of returned nodes, and
\* the ids of the returned nodes are pairwise distinct.
C3_EndpointsAreNodes ==
  op = "buildGraphData" =>
    /\ \A e \in 1..Len(links) :
         /\ \E n \in 1..Len(nodes) : nodes[n].id = links[e].source
         /\ \E n \in 1..Len(nodes) : nodes[n].id = links[e].target
    /\ \A m, n \in 1..Len(nodes) : m # n => nodes[m].id # nodes[n].id

\* a node that is an endpoint of two edges
C3_Witness ==
  /\ op = "buildGraphData"
  /\ \E d, e \in 1..Len(links) :
       /\ d # e
       /\ {links[d].source, links[d].target} \cap {links[e].source, links[e].target} # {}

\* C4: every returned edge originates from a file whose name is the
\* selected parse target.
C4_SourcesOfSelectedType ==
  op = "buildGraphData" =>
    \A e \in 1..Len(links) :
      toLowerCase(FileAt(links[e].source).name) = toLowerCase(parseTarget)

\* C5: a root-level file named like the type that is not selected is no
\* node, no edge source and no edge target.
C5_OtherRootAbsent ==
  op = "buildGraphData" =>
    /\ \A n \in 1..Len(nodes) : ~IsRootOfOtherType(nodes[n].file, parseTarget)
    /\ \A e \in 1..Len(links) :
         /\ ~IsRootOfOtherType(FileAt(links[e].source), parseTarget)
         /\ ~IsRootOfOtherType(FileAt(links[e].target), parseTarget)

\* the root file of the other type has content, and a scanned file has a
\* reference that resolves to it
C5_Witness ==
  /\ op = "buildGraphData"
  /\ \E r \in 1..Len(files) :
       /\ IsRootOfOtherType(files[r], parseTarget)
       /\ files[r].loaded
       /\ \E i \in 1..Len(files) :
            /\ Scanned(i)
            /\ \E k \in 1..Len(TargetsOf(i)) :
                 TargetsOf(i)[k].found /\ TargetsOf(i)[k].file.path = files[r].path

\* C8: the results of a call depend on its arguments only: whatever calls
\* came before, buildGraphData returns the node ids and edges, and
\* extractLinks the raw references, of a first call on the same arguments.
C8_ResultsOfFirstCall ==
  /\ op = "buildGraphData" =>
       LET first == buildGraphData(files, parseTarget, NoRegexState, {})
       IN /\ [n \in 1..Len(nodes) |-> nodes[n].id]
               = [n \in 1..Len(first.nodesMap) |-> first.nodesMap[n].id]
          /\ links = first.links
  /\ op = "extractLinks" =>
       rawLinks = extractLinks(content, NoRegexState).links

\* a call of buildGraphData that returns edges after a call of extractLinks
\* that returned references
C8_Witness ==
  /\ op = "buildGraphData"
  /\ Len(links) > 0
  /\ Len(rawLinks) > 0

----------------------------------------------------------------------------
(* Properties of the target lookup, of missing content, of the node list   *)
(* and of the weights                                                      *)

PathsOfFiles == {files[i].path : i \in 1..Len(files)}

\* the resolved paths of the raw references of files[i], in the order of
\* extraction
ResolvedOf(i) ==
  LET raw == extractLinks(files[i].content, NoRegexState).links
  IN [k \in 1..Len(raw) |-> resolvePath(files[i].path, raw[k])]

\* the two-step chain of the lookup as the claim words it: the path itself
\* if a file has it, else the path with ".md" appended if a file has that,
\* else nothing
LookupChain(P) ==
  IF P \in PathsOfFiles THEN {P}
  ELSE IF (P \o <<".", "m", "d">>) \in PathsOfFiles THEN {P \o <<".", "m", "d">>}
  ELSE {}

HasMdName(path) == endsWith(toLowerCase(FileAt(path).name), <<".", "m", "d">>)

\* C11: a resolved path P maps to the file of path P if there is one, else
\* to the file of path P + ".md" if there is one, else to nothing; every
\* edge goes to the file a reference of its source maps to, that file's name
\* ends in .md case-insensitively, and a reference that maps to such a file
\* (not an excluded root file, not the source) yields the edge.
C11_TargetLookup ==
  op = "buildGraphData" =>
    /\ \A e \in 1..Len(links) :
         /\ HasMdName(links[e].target)
         /\ \E i \in 1..Len(files) :
              /\ Scanned(i)
              /\ files[i].path = links[e].source
              /\ \E k \in 1..Len(ResolvedOf(i)) :
                   LookupChain(ResolvedOf(i)[k]) = {links[e].target}
    /\ \A i \in 1..Len(files) :
         Scanned(i) =>
           \A k \in 1..Len(ResolvedOf(i)) :
             \A T \in LookupChain(ResolvedOf(i)[k]) :
               ( /\ HasMdName(T)
                 /\ ~IsRootOfOtherType(FileAt(T), parseTarget)
                 /\ T # files[i].path )
                 => \E e \in 1..Len(links) :
                      links[e] = [source |-> files[i].path, target |-> T]

\* docs/x and docs/x.md are both listed; the root file is scanned and has a
\* reference that resolves to docs/x, which is found as it is and is no
\* target, and a reference that resolves to docs/y, for which docs/y.md is
\* found and becomes a target
C11_Witness ==
  /\ op = "buildGraphData"
  /\ {DocsBarePath, DocsXPath, DocsYPath} \subseteq PathsOfFiles
  /\ Scanned(1)
  /\ \E k, l \in 1..Len(ResolvedOf(1)) :
       /\ ResolvedOf(1)[k] = DocsBarePath
       /\ ResolvedOf(1)[l] = <<"d", "o", "c", "s", "/", "y">>
  /\ links = <<[source |-> DocsRootPath, target |-> DocsYPath]>>

\* C12: buildGraphData returns for every list, whichever files have no
\* content: a file without content is the source of no edge, and it is an
\* edge target, with a node, whenever a scanned file has a reference that
\* maps to it (its name ending in .md, not an excluded root file, not the
\* source itself).
C12_MissingContent ==
  op = "buildGraphData" =>
    /\ \A e \in 1..Len(links) : FileAt(links[e].source).loaded
    /\ \A i \in 1..Len(files) :
         Scanned(i) =>
           \A k \in 1..Len(ResolvedOf(i)) :
             \A T \in LookupChain(ResolvedOf(i)[k]) :
               ( /\ ~FileAt(T).loaded
                 /\ HasMdName(T)
                 /\ ~IsRootOfOtherType(FileAt(T), parseTarget)
                 /\ T # files[i].path )
                 => /\ \E e \in 1..Len(links) :
                         links[e] = [source |-> files[i].path, target |-> T]
                    /\ \E n \in 1..Len(nodes) : nodes[n].id = T

\* docs/CLAUDE.md has no content and the root file, which has, references it
C12_Witness ==
  /\ op = "buildGraphData"
  /\ DocsSubPath \in PathsOfFiles
  /\ ~FileAt(DocsSubPath).loaded
  /\ \E e \in 1..Len(links) :
       links[e] = [source |-> DocsRootPath, target |-> DocsSubPath]
  /\ \E n \in 1..Len(nodes) : nodes[n].id = DocsSubPath

\* a file that can be a source: named CLAUDE.md or AGENTS.md in any case,
\* no excluded root file, its content a string (the empty one included)
EligibleSource(i) ==
  /\ isAllowedFileType(files[i].name)
  /\ ~IsRootOfOtherType(files[i], parseTarget)
  /\ files[i].loaded

\* C13: the node list has exactly one node for each eligible source file
\* (content present as any string, the empty string included) and for each
\* file that is the target of a returned edge, and no other node.
C13_NodeList ==
  op = "buildGraphData" =>
    /\ {nodes[n].id : n \in 1..Len(nodes)}
         = {files[i].path : i \in {j \in 1..Len(files) : EligibleSource(j)}}
           \cup {links[e].target : e \in 1..Len(links)}
    /\ \A m, n \in 1..Len(nodes) : m # n => nodes[m].id # nodes[n].id

IndexOfPath(path) == CHOOSE i \in 1..Len(files) : files[i].path = path

\* the node of this id was created by the loop over files, not by the loop
\* over references: its file is scanned, and no edge from a file listed
\* before it has it as target
CreatedAsSource(id) ==
  /\ Scanned(IndexOfPath(id))
  /\ ~\E e \in 1..Len(links) :
        /\ links[e].target = id
        /\ IndexOfPath(links[e].source) < IndexOfPath(id)

EdgesAt(id) ==
  Cardinality({e \in 1..Len(links) : links[e].source = id \/ links[e].target = id})

\* C14: the weight of every returned node is its initial value, 2 if it was
\* created as a source and 1 if it was created as a target, plus the number
\* of returned edges it is an endpoint of, hence at least 1; a root
\* CLAUDE.md that references docs/x.md and docs/y.md gives 4, 2 and 2.
C14_Weights ==
  op = "buildGraphData" =>
    /\ \A n \in 1..Len(nodes) :
         /\ nodes[n].val
              = (IF CreatedAsSource(nodes[n].id) THEN 2 ELSE 1) + EdgesAt(nodes[n].id)
         /\ nodes[n].val >= 1
    /\ ( /\ parseTarget = CLAUDE_MD
         /\ files = DocsList(Loaded(<<"@", "d", "o", "c", "s", "/", "x", ".", "m", "d", " ", "@", "d", "o", "c", "s", "/", "y", ".", "m", "d">>), FALSE, NoContent,
                             {DocsXPath, DocsYPath}) )
         => [n \in 1..Len(nodes) |-> <<nodes[n].id, nodes[n].val>>]
              = << <<DocsRootPath, 4>>, <<DocsXPath, 2>>, <<DocsYPath, 2>> >>

\* the example of the root file and the two documents
C14_Witness ==
  /\ op = "buildGraphData"
  /\ parseTarget = CLAUDE_MD
  /\ files = DocsList(Loaded(<<"@", "d", "o", "c", "s", "/", "x", ".", "m", "d", " ", "@", "d", "o", "c", "s", "/", "y", ".", "m", "d">>), FALSE, NoContent,
                      {DocsXPath, DocsYPath})
  /\ [n \in 1..Len(nodes) |-> nodes[n].val] = <<4, 2, 2>>

\* a node that was created as a target before its file was scanned
C14_TargetThenSource ==
  /\ op = "buildGraphData"
  /\ \E n \in 1..Len(nodes) :
       /\ Scanned(IndexOfPath(nodes[n].id))
       /\ ~CreatedAsSource(nodes[n].id)
       /\ nodes[n].val = 3

----------------------------------------------------------------------------
(* Properties of the file tree *)

\* the nodes of a list of tree nodes and of all lists below it
RECURSIVE NodesOf(_)
NodesOf(level) ==
  IF Len(level) = 0 THEN <<>>
  ELSE <<Head(level)>>
       \o (IF Head(level).children # <<>> THEN NodesOf(Head(level).children[1]) ELSE <<>>)
       \o NodesOf(Tail(level))

\* the prefixes of a path: its first k segments joined, for every k
PrefixesOf(path) ==
  {join(SubSeq(split(path, "/"), 1, k), "/") : k \in 1..Len(split(path, "/"))}

AllPrefixes == UNION {PrefixesOf(files[i].path) : i \in 1..Len(files)}

\* the path of every node is the path of its parent, "/" and its name
RECURSIVE PathsJoined(_, _)
PathsJoined(level, parentPath) ==
  \A i \in 1..Len(level) :
    /\ level[i].path = (IF parentPath = <<>> THEN level[i].name
                        ELSE parentPath \o <<"/">> \o level[i].name)
    /\ level[i].children # <<>> => PathsJoined(level[i].children[1], level[i].path)

\* alphabetical order of two names, without regard to case
AlphabeticalLE(a, b) == compareFrom(toLowerCase(a), toLowerCase(b), 1, "primary") <= 0

\* at every level the directories precede the files, and the directories
\* and the files are each in alphabetical order
RECURSIVE DirectoriesFirst(_)
DirectoriesFirst(level) ==
  /\ \A i, j \in 1..Len(level) :
       i < j => /\ ~(level[i].type = "file" /\ level[j].type = "directory")
                /\ level[i].type = level[j].type
                     => AlphabeticalLE(level[i].name, level[j].name)
  /\ \A i \in 1..Len(level) :
       level[i].children # <<>> => DirectoriesFirst(level[i].children[1])

\* C15: the file tree the application shows is the tree of the files given
\* to the graph builder, whatever the parse target is, so that switching
\* the parse target leaves it unchanged.
C15_TreeOfAllFiles ==
  op = "App" => fileTreeData = buildFileTree(files)

\* C16: for files with distinct paths buildFileTree returns exactly one
\* node per distinct path prefix, a directory with children for a proper
\* prefix and a leaf carrying the record for a file, each node's path being
\* the joined prefix; at every level the directories precede the files and
\* each group is in alphabetical order of the names.
C16_TreeShape ==
  op = "buildFileTree" =>
    /\ {NodesOf(fileTreeData)[n].path : n \in 1..Len(NodesOf(fileTreeData))} = AllPrefixes
    /\ Len(NodesOf(fileTreeData)) = Cardinality(AllPrefixes)
    /\ \A n \in 1..Len(NodesOf(fileTreeData)) :
         IF NodesOf(fileTreeData)[n].path \in PathsOfFiles
         THEN /\ NodesOf(fileTreeData)[n].type = "file"
              /\ NodesOf(fileTreeData)[n].children = <<>>
              /\ NodesOf(fileTreeData)[n].fileData = <<FileAt(NodesOf(fileTreeData)[n].path)>>
         ELSE /\ NodesOf(fileTreeData)[n].type = "directory"
              /\ NodesOf(fileTreeData)[n].children # <<>>
              /\ NodesOf(fileTreeData)[n].children[1] # <<>>
              /\ NodesOf(fileTreeData)[n].fileData = <<>>
    /\ PathsJoined(fileTreeData, <<>>)
    /\ DirectoriesFirst(fileTreeData)

\* the files CLAUDE.md, a/agents.md and a/B/CLAUDE.md listed in this order:
\* the directory a is moved before CLAUDE.md and the directory a/B before
\* a/agents.md
C16_Witness ==
  /\ op = "buildFileTree"
  /\ [i \in 1..Len(files) |-> files[i].path]
       = <<<<"C", "L", "A", "U", "D", "E", ".", "m", "d">>, <<"a", "/", "a", "g", "e", "n", "t", "s", ".", "m", "d">>, <<"a", "/", "B", "/", "C", "L", "A", "U", "D", "E", ".", "m", "d">>>>
  /\ [i \in 1..Len(fileTreeData) |-> fileTreeData[i].path] = <<<<"a">>, <<"C", "L", "A", "U", "D", "E", ".", "m", "d">>>>
  /\ [i \in 1..Len(fileTreeData[1].children[1]) |-> fileTreeData[1].children[1][i].path]
       = <<<<"a", "/", "B">>, <<"a", "/", "a", "g", "e", "n", "t", "s", ".", "m", "d">>>>

----------------------------------------------------------------------------
(* Properties of the scanner and of the ignore rules *)

\* the names of the files of a directory handle and of the directories in it
RECURSIVE FileNamesIn(_)
FileNamesIn(dirHandle) ==
  UNION { IF dirHandle.entries[i].kind = "file" THEN {dirHandle.entries[i].name}
          ELSE IF dirHandle.entries[i].kind = "throws" THEN {}
          ELSE FileNamesIn(dirHandle.entries[i].handle) :
          i \in 1..Len(dirHandle.entries) }

\* C19: every record scanDirectory returns has a name equal, without regard
\* to case, to CLAUDE.md or AGENTS.md, and a folder that has only other
\* markdown files yields an empty result.
C19_OnlyAgentFiles ==
  op = "scanDirectory" =>
    /\ \A i \in 1..Len(files) : isAllowedFileType(files[i].name)
    /\ (\A name \in FileNamesIn(pickedFolder) : ~isAllowedFileType(name)) => files = <<>>

\* the directory is the path of an entry's ancestor: the root, or the
\* leading segments of the path
IsAncestorDir(dir, path) == dir = <<>> \/ startsWith(path, dir \o <<"/">>)

\* the path made relative to an ancestor directory
RelativeTo(dir, path) == IF dir = <<>> THEN path ELSE SubSeq(path, Len(dir) + 2, Len(path))

\* C20: shouldIgnore applies the patterns stored for a directory only to
\* paths inside that directory, made relative to it: a path is ignored
\* exactly when a pattern of one of its ancestor directories matches its
\* path relative to that directory.
C20_AncestorPatternsOnly ==
  op = "shouldIgnore" =>
    ( ignored <=>
        \E e \in 1..Len(patternsByDir) :
          /\ IsAncestorDir(patternsByDir[e].dir, queryPath)
          /\ \E k \in 1..Len(patternsByDir[e].patterns) :
               matchesGitignorePattern(RelativeTo(patternsByDir[e].dir, queryPath),
                                       patternsByDir[e].patterns[k], queryIsDirectory) )


\* a sequence in the opposite order
ReverseOf(s) == [i \in 1..Len(s) |-> s[Len(s) + 1 - i]]

\* the Map with its entries and the patterns of every entry in the opposite
\* order
ReversedMap(map) ==
  ReverseOf([e \in 1..Len(map) |->
               [dir |-> map[e].dir, patterns |-> ReverseOf(map[e].patterns)]])

\* C21: matchesGitignorePattern is false for every pattern that starts with
\* "!" and, when the entry is a file, for every pattern that ends with "/";
\* so a path is ignored exactly when a pattern without "!" of an applicable
\* entry matches it, whatever the order of the patterns is.
C21_NegationNeverUnignores ==
  op = "shouldIgnore" =>
    /\ \A e \in 1..Len(patternsByDir) :
         \A k \in 1..Len(patternsByDir[e].patterns) :
           \A pattern \in {patternsByDir[e].patterns[k]} :
             \A path \in {queryPath, pathRelativeToIgnore(queryPath, patternsByDir[e].dir)} :
               /\ startsWith(pattern, <<"!">>)
                    => ~matchesGitignorePattern(path, pattern, queryIsDirectory)
               /\ endsWith(pattern, <<"/">>)
                    => ~matchesGitignorePattern(path, pattern, FALSE)
    /\ ignored <=>
         \E e \in 1..Len(patternsByDir) :
           /\ isApplicable(queryPath, patternsByDir[e].dir)
           /\ \E k \in 1..Len(patternsByDir[e].patterns) :
                /\ ~startsWith(patternsByDir[e].patterns[k], <<"!">>)
                /\ matchesGitignorePattern(
                     pathRelativeToIgnore(queryPath, patternsByDir[e].dir),
                     patternsByDir[e].patterns[k], queryIsDirectory)
    /\ ignored = shouldIgnore(queryPath, queryIsDirectory, ReversedMap(patternsByDir))

\* foo/x.md is ignored by "*.md" of foo/.gitignore although "!x.md" follows it
C21_Witness ==
  /\ op = "shouldIgnore"
  /\ queryPath = <<"f", "o", "o", "/", "x", ".", "m", "d">>
  /\ patternsByDir = <<[dir |-> <<"f", "o", "o">>, patterns |-> <<<<"*", ".", "m", "d">>, <<"!", "x", ".", "m", "d">>>>]>>
  /\ ignored


\* the segments of a path before its last one: the directories it lies under
DirectoriesAbove(path) == SubSeq(split(path, "/"), 1, Len(split(path, "/")) - 1)

\* C22: no record scanDirectory returns lies under a directory named .git,
\* .svn or .hg, nor under a directory of which shouldIgnore was true when the
\* scan came to it; and the path of every record is its name when its
\* directory is empty and its directory, "/" and its name otherwise.
C22_SkippedDirectories ==
  op = "scanDirectory" =>
    \A i \in 1..Len(files) :
      /\ \A d \in 1..Len(DirectoriesAbove(files[i].path)) :
           DirectoriesAbove(files[i].path)[d] \notin ALWAYS_SKIP_DIRS
      /\ \A v \in 1..Len(visitedDirs) :
           visitedDirs[v].ignoredWhenVisited
             => ~startsWith(files[i].path, visitedDirs[v].path \o <<"/">>)
      /\ files[i].path = (IF files[i].directory = <<>> THEN files[i].name
                          ELSE files[i].directory \o <<"/">> \o files[i].name)

\* a scan that came to .git and to a directory the root .gitignore excludes,
\* and returned a file of the root and a file of another directory
C22_Witness ==
  /\ op = "scanDirectory"
  /\ \E v \in 1..Len(visitedDirs) : visitedDirs[v].path = <<".", "g", "i", "t">>
  /\ \E v \in 1..Len(visitedDirs) :
       visitedDirs[v].path = <<"f", "o", "o", "b", "a", "r">> /\ visitedDirs[v].ignoredWhenVisited
  /\ \E i \in 1..Len(files) : files[i].path = <<"f", "o", "o", "/", "C", "L", "A", "U", "D", "E", ".", "m", "d">>
  /\ \E i \in 1..Len(files) : files[i].path = <<"C", "L", "A", "U", "D", "E", ".", "m", "d">>


\* the entries before the first one that throws
RECURSIVE EntriesYielded(_)
EntriesYielded(entries) ==
  IF Len(entries) = 0 THEN <<>>
  ELSE IF Head(entries).kind = "throws" THEN <<>>
  ELSE <<Head(entries)>> \o EntriesYielded(Tail(entries))

\* the folder in which every directory ends where its iterator rejects
RECURSIVE Readable(_)
Readable(dirHandle) ==
  [entries |->
     [i \in 1..Len(EntriesYielded(dirHandle.entries)) |->
        IF EntriesYielded(dirHandle.entries)[i].kind = "directory"
        THEN DirectoryEntry(EntriesYielded(dirHandle.entries)[i].name,
                            Readable(EntriesYielded(dirHandle.entries)[i].handle))
        ELSE EntriesYielded(dirHandle.entries)[i]]]

\* a directory of the folder has an iterator that rejects
RECURSIVE SomeReadFails(_)
SomeReadFails(dirHandle) ==
  \E i \in 1..Len(dirHandle.entries) :
    \/ dirHandle.entries[i].kind = "throws"
    \/ /\ dirHandle.entries[i].kind = "directory"
       /\ SomeReadFails(dirHandle.entries[i].handle)

\* C23: scanDirectory returns also when reading the entries of a directory
\* fails: the failure ends the scan of that directory only, so the result is
\* the result for the folder in which every directory holds just the
\* entries read before its failure: the records found before the failure
\* are returned and the parent goes on with its next entry.
C23_FailureEndsOneDirectory ==
  op = "scanDirectory" =>
    \A r \in {scanDirectory(Readable(pickedFolder), <<>>, <<>>)} :
      /\ files = r.foundFiles
      /\ patternsByDir = r.gitignorePatterns

\* reading foo fails after foo/CLAUDE.md: that record is returned, foo/x.md
\* is not, and the scan goes on to foobar and to the files of the root
C23_Witness ==
  /\ op = "scanDirectory"
  /\ SomeReadFails(pickedFolder)
  /\ [i \in 1..Len(files) |-> files[i].path]
       = <<<<"f", "o", "o", "/", "C", "L", "A", "U", "D", "E", ".", "m", "d">>, <<"f", "o", "o", "b", "a", "r", "/", "C", "L", "A", "U", "D", "E", ".", "m", "d">>, <<"f", "o", "o", "b", "a", "r", "/", "x", ".", "m", "d">>, <<"C", "L", "A", "U", "D", "E", ".", "m", "d">>>>


----------------------------------------------------------------------------
(* Properties of loadAllFileContents *)

\* C24: loadAllFileContents returns a list with the length, the order and
\* the paths of its argument; a file whose read fails is returned as it
\* was, every other file with a handle and no content is returned with the
\* text of its handle as its content, and a file that has content that is
\* not empty is not read and is returned as it was.
C24_LoadKeepsList ==
  op = "loadAllFileContents" =>
    /\ Len(loadedFiles) = Len(files)
    /\ \A i \in 1..Len(files) :
         /\ loadedFiles[i].path = files[i].path
         /\ loadedFiles[i].name = files[i].name
         /\ loadedFiles[i].directory = files[i].directory
         /\ IF files[i].loaded /\ files[i].content # <<>>
            THEN ~needsRead(files[i], disk) /\ loadedFiles[i] = files[i]
            ELSE IF files[i].path \notin DOMAIN disk THEN loadedFiles[i] = files[i]
            ELSE IF ~disk[files[i].path].ok THEN loadedFiles[i] = files[i]
            ELSE /\ loadedFiles[i].loaded
                 /\ loadedFiles[i].content = disk[files[i].path].text

\* of two records without content the read of the first fails and the read
\* of the second gives its text
C24_Witness ==
  /\ op = "loadAllFileContents"
  /\ Len(files) = 2
  /\ \A i \in 1..2 : ~files[i].loaded /\ files[i].path \in DOMAIN disk
  /\ ~disk[files[1].path].ok /\ disk[files[2].path].ok
  /\ ~loadedFiles[1].loaded
  /\ loadedFiles[2].loaded /\ loadedFiles[2].content = <<"@", ".", "/", "y", ".", "m", "d">>

\* a record that has content is returned with the content it had, whatever
\* its handle gives
C24_ContentKept ==
  /\ op = "loadAllFileContents"
  /\ \E i \in 1..Len(files) :
       /\ files[i].content = <<"@", "d", "o", "c", "s", "/", "x", ".", "m", "d">>
       /\ files[i].path \in DOMAIN disk /\ disk[files[i].path].ok
       /\ loadedFiles[i].content = <<"@", "d", "o", "c", "s", "/", "x", ".", "m", "d">>


----------------------------------------------------------------------------
(* Properties of the selection of folders *)

\* a call of scanDirectory is pending
ScanPending == \E c \in 1..Len(selections) : selections[c].pc = "scanDirectory"

\* the call c of handleSelectFolder ends in this step without a content load
EndsWithoutFiles(c) ==
  /\ c \in 1..Len(selections)
  /\ selections[c].pc \in {"showDirectoryPicker", "scanDirectory"}
  /\ selections'[c].pc = "done"

\* the await of scanDirectory of the call c ends in this step
ScanEnds(c) ==
  /\ c \in 1..Len(selections)
  /\ selections[c].pc = "scanDirectory"
  /\ selections'[c].pc # "scanDirectory"

\* C25: scanStatus is not empty, and the button Select Local Folder
\* disabled, only while a call of scanDirectory is pending; the step that
\* ends the wait for a scan or ends a call of handleSelectFolder without
\* files (no files found, picker aborted, picker failed) leaves scanStatus
\* empty; and a scanStatus that is not empty is empty again later on, which
\* enables the button.
C25_ScanStatusWhileScanning ==
  /\ [](isScanning => ScanPending)
  /\ [][\A c \in 1..MaxSelections :
          (EndsWithoutFiles(c) \/ ScanEnds(c)) => scanStatus' = <<>>]_vars
  /\ [](( /\ selections # <<>>
          /\ \A c \in 1..Len(selections) : selections[c].pc = "done") => ~isScanning)
  /\ (isScanning ~> ~isScanning)

\* two calls of handleSelectFolder have finished, one with files and one
\* with the alert that there are none, and the button is enabled
C25_Witness ==
  /\ Len(selections) = 2
  /\ \A c \in 1..2 : selections[c].pc = "done"
  /\ files # <<>>
  /\ lastAlert = NO_FILES_ALERT
  /\ ~isScanning

\* C26: a call of handleSelectFolder that finds no files, or whose picker
\* is aborted or fails, leaves files, selectedFile and parseTarget as they
\* are; a call that finds files replaces files by them and sets
\* selectedFile to null, and the scan ends without files only if it found
\* none.
C26_PreviousGraphStays ==
  [][\A c \in 1..MaxSelections :
       /\ EndsWithoutFiles(c) => UNCHANGED <<files, selectedFile, parseTarget>>
       /\ ScanEnds(c) =>
            IF selections[c].foundFiles = <<>>
            THEN selections'[c].pc = "done"
            ELSE /\ selections'[c].pc = "loadAllFileContents"
                 /\ files' = selections[c].foundFiles
                 /\ selectedFile' = <<>>
                 /\ parseTarget' = parseTarget]_vars

\* after a folder without markdown files was picked, the files of the
\* folder loaded before, the file selected in it and the parse target that
\* was chosen are still there
C26_Witness ==
  /\ lastAlert = NO_FILES_ALERT
  /\ \A c \in 1..Len(selections) : selections[c].pc = "done"
  /\ Len(files) = 2
  /\ selectedFile # <<>>
  /\ parseTarget = AGENTS_MD

\* the call of handleSelectFolder that was the last to find files
LastWithFiles ==
  CHOOSE c \in 1..Len(selections) :
    /\ selections[c].foundFiles # <<>>
    /\ \A d \in (c + 1)..Len(selections) : selections[d].foundFiles = <<>>

\* C27: once every call of handleSelectFolder has finished, files are the
\* files of the folder that was selected last (of those in which files were
\* found), with their contents: a content load that finishes late does not
\* put back the files of an earlier selection.
C27_LastSelectionWins ==
  ( /\ \A c \in 1..Len(selections) : selections[c].pc = "done"
    /\ \E c \in 1..Len(selections) : selections[c].foundFiles # <<>> )
  => files = loadAllFileContents(selections[LastWithFiles].foundFiles,
                                 handlesOf(selections[LastWithFiles].dirHandle))


----------------------------------------------------------------------------
(* Properties of the selection of files *)

\* the parse target a file name stands for, if any: the name is AGENTS.md
\* or CLAUDE.md without regard to case
TargetNamed(file, current) ==
  IF toLowerCase(file.name) = toLowerCase(AGENTS_MD) THEN AGENTS_MD
  ELSE IF toLowerCase(file.name) = toLowerCase(CLAUDE_MD) THEN CLAUDE_MD
  ELSE current

\* C28: handleFileSelect(file) makes file the selected file and makes the
\* parse target AGENTS.md or CLAUDE.md when the name of the file is that
\* name without regard to case, and leaves the parse target as it is for
\* every other name; a click on a node of the graph makes its file the
\* selected file and leaves the parse target as it is.
C28_SelectSwitchesTarget ==
  [][ /\ \A file \in LeafFiles(fileTreeData) :
           handleFileSelect(file)
             => /\ selectedFile' = <<file>>
                /\ parseTarget' = TargetNamed(file, parseTarget)
      /\ \A n \in 1..Len(nodes) :
           onNodeClick(nodes[n].file)
             => /\ selectedFile' = <<nodes[n].file>>
                /\ parseTarget' = parseTarget ]_vars

\* a/AGENTS.md is selected and the parse target is AGENTS.md, with a/b.md
\* in the graph: a file whose name is neither of the two
C28_Witness ==
  /\ op = "App"
  /\ selectedFile # <<>>
  /\ selectedFile[1].path = <<"a", "/", "A", "G", "E", "N", "T", "S", ".", "m", "d">>
  /\ parseTarget = AGENTS_MD
  /\ \E n \in 1..Len(nodes) : nodes[n].id = <<"a", "/", "b", ".", "m", "d">>


----------------------------------------------------------------------------
(* Properties of buildGraphData as a function of a set of files *)

\* the lists that have the files of fs in any order
Orderings(fs) ==
  { [i \in 1..Len(fs) |-> fs[p[i]]] : p \in Permutations(1..Len(fs)) }

\* the weight of every node, by its id
WeightsOf(graphNodes) ==
  { <<graphNodes[n].id, graphNodes[n].val>> : n \in 1..Len(graphNodes) }

EdgePairsOf(graphLinks) ==
  { <<graphLinks[e].source, graphLinks[e].target>> : e \in 1..Len(graphLinks) }

\* C29: the result of buildGraphData does not depend on the order of the
\* files: for every ordering of the files and the same parse target the
\* set of node ids, the weight of every node and the set of edge pairs are
\* those of the result for the files as they are listed.
C29_OrderIndependent ==
  op = "buildGraphData" =>
    \A fs \in Orderings(files) :
      \A r \in {buildGraphData(fs, parseTarget, NoRegexState, {})} :
        /\ {r.nodesMap[n].id : n \in 1..Len(r.nodesMap)}
             = {nodes[n].id : n \in 1..Len(nodes)}
        /\ WeightsOf(r.nodesMap) = WeightsOf(nodes)
        /\ EdgePairsOf(r.links) = EdgePairsOf(links)


\* C30: the edges buildGraphData returns are complete: for every file it
\* scans and every raw reference of that file whose target exists, has a
\* name that ends in .md, is no excluded root file and is not the file
\* itself, the edge from the file to the target is returned; the test on
\* the key of linkSet suppresses no edge whose pair was not emitted before,
\* also when paths contain "->".
C30_EdgesComplete ==
  op = "buildGraphData" =>
    \A i \in 1..Len(files) :
      Scanned(i) =>
        \A t \in {TargetsOf(i)[k] : k \in 1..Len(TargetsOf(i))} :
          ( /\ t.found
            /\ endsWith(toLowerCase(t.file.name), <<".", "m", "d">>)
            /\ ~IsRootOfOtherType(t.file, parseTarget)
            /\ t.file.path # files[i].path )
          => <<files[i].path, t.file.path>> \in EdgePairsOf(links)

====
